---- MODULE Spec2Model ----
(***************************************************************************)
(* A model of the Patito compiler back end: the virtual-address allocator  *)
(* (virtual_memory.py), the quadruple generator (expression_to_quads.py),  *)
(* the execution memory (execution_memory.py) and the virtual machine      *)
(* (virtual_machine.py).                                                   *)
(*                                                                         *)
(* Python values are modelled as follows.  None in an integer field        *)
(* (an address, an index, a base) is the integer None; an Optional object  *)
(* is a sequence of length 0 or 1.  A Python list of numbers is the record *)
(* [len, vals]: len is len(list) and vals maps the indices that hold a     *)
(* value other than the list's default to that value, every other index    *)
(* below len holding the default (lists are only ever padded with it).     *)
(* An ordered dict is a sequence of its entries in insertion order.        *)
(***************************************************************************)
EXTENDS Integers, Sequences, FiniteSets, TLC

VARIABLES
    function_directory,     \* FunctionDirectory: globals and functions
    virtual_memory,         \* VirtualMemory: counters, constant table, return slots
    program_tree,           \* the parse tree handed to generate_program
    generator,              \* ExpressionQuadrupleGenerator and its context
    phase,                  \* position of the pipeline driver
    quadruples,             \* VirtualMachine.quadruples
    memory,                 \* ExecutionMemory
    ip,                     \* VirtualMachine.ip
    halted,                 \* VirtualMachine.halted
    return_address_stack,   \* VirtualMachine.return_address_stack
    pending_frame,          \* VirtualMachine.pending_frame (<<>> is None)
    output,                 \* VirtualMachine.output
    vm_error,               \* the exception that left run()/execute_quadruple
    calls                   \* history: one entry per GOSUB not yet returned

vars == << function_directory, virtual_memory, program_tree, generator, phase,
           quadruples, memory, ip, halted, return_address_stack, pending_frame,
           output, vm_error, calls >>

-----------------------------------------------------------------------------
(* Types and sentinels *)

INT == "INT"

FLOAT == "FLOAT"

BOOL == "BOOL"

VOID == "VOID"

STR == "STRING"

\* Python's None where the field otherwise holds a non-negative integer.
None == -1

\* Python's None where the field otherwise holds a function name.
NoName == "<None>"

Max(a, b) == IF a >= b THEN a ELSE b

Min(a, b) == IF a <= b THEN a ELSE b

RECURSIVE SeqMin(_)
SeqMin(s) ==
    IF Len(s) = 1 THEN s[1] ELSE Min(s[1], SeqMin(Tail(s)))

Front(s) == SubSeq(s, 1, Len(s) - 1)

Last(s) == s[Len(s)]

-----------------------------------------------------------------------------
(* virtual_memory.py: the address ranges *)

GLOBAL_INT_START == 1000

GLOBAL_FLOAT_START == 2000

GLOBAL_BOOL_START == 3000

LOCAL_INT_START == 4000

LOCAL_FLOAT_START == 5000

LOCAL_BOOL_START == 6000

TEMP_INT_START == 7000

TEMP_FLOAT_START == 8000

TEMP_BOOL_START == 9000

CONST_INT_START == 10000

CONST_FLOAT_START == 11000

CONST_STRING_START == 12000

\* The width execution_memory.decode_address gives the STRING range.
CONST_STRING_WIDTH == 1000

-----------------------------------------------------------------------------
(* Python lists of numbers *)

EmptyList == [len |-> 0, vals |-> << >>]

\* list[i] for 0 <= i < len(list)
ListGet(list, i, default) ==
    IF i \in DOMAIN list.vals THEN list.vals[i] ELSE default

\* list[i] = v for 0 <= i < len(list)
ListPut(list, i, v, default) ==
    [len  |-> list.len,
     vals |-> [k \in IF v = default
                        THEN (DOMAIN list.vals) \ {i}
                        ELSE (DOMAIN list.vals) \cup {i}
                 |-> IF k = i THEN v ELSE list.vals[k]]]

\* while len(list) <= offset: list.append(default)
EnsureCapacity(list, offset) ==
    [list EXCEPT !.len = Max(list.len, offset + 1)]

\* list[i] = v as Python does it: a negative i counts from the end, and an
\* index outside the list raises IndexError.
ListAssign(list, i, v, default) ==
    IF 0 <= i /\ i < list.len
      THEN [ok |-> TRUE, list |-> ListPut(list, i, v, default)]
      ELSE IF i < 0 /\ list.len + i >= 0
             THEN [ok |-> TRUE, list |-> ListPut(list, list.len + i, v, default)]
             ELSE [ok |-> FALSE, list |-> list]

-----------------------------------------------------------------------------
(* execution_memory.py *)

TypeDefault(data_type) ==
    IF data_type = STR THEN "" ELSE 0

TypeSuffix(data_type) ==
    CASE data_type = INT    -> "ints"
      [] data_type = FLOAT  -> "floats"
      [] data_type = BOOL   -> "bools"
      [] data_type = STR -> "strings"

ActivationRecord(function_name, local_base, temp_base) ==
    [function_name |-> function_name,
     local_base    |-> local_base,
     temp_base     |-> temp_base,
     local_ints    |-> EmptyList,
     local_floats  |-> EmptyList,
     local_bools   |-> EmptyList,
     temp_ints     |-> EmptyList,
     temp_floats   |-> EmptyList,
     temp_bools    |-> EmptyList]

MainFrame == ActivationRecord("__main__", None, None)

ExecutionMemory ==
    [global_ints   |-> EmptyList,
     global_floats |-> EmptyList,
     global_bools  |-> EmptyList,
     const_ints    |-> EmptyList,
     const_floats  |-> EmptyList,
     const_strings |-> EmptyList,
     call_stack    |-> << MainFrame >>]

decode_address(a) ==
    CASE GLOBAL_INT_START <= a /\ a < GLOBAL_FLOAT_START ->
           [ok |-> TRUE, segment |-> "GLOBAL", type |-> INT, offset |-> a - GLOBAL_INT_START]
      [] GLOBAL_FLOAT_START <= a /\ a < GLOBAL_BOOL_START ->
           [ok |-> TRUE, segment |-> "GLOBAL", type |-> FLOAT, offset |-> a - GLOBAL_FLOAT_START]
      [] GLOBAL_BOOL_START <= a /\ a < LOCAL_INT_START ->
           [ok |-> TRUE, segment |-> "GLOBAL", type |-> BOOL, offset |-> a - GLOBAL_BOOL_START]
      [] LOCAL_INT_START <= a /\ a < LOCAL_FLOAT_START ->
           [ok |-> TRUE, segment |-> "LOCAL", type |-> INT, offset |-> a - LOCAL_INT_START]
      [] LOCAL_FLOAT_START <= a /\ a < LOCAL_BOOL_START ->
           [ok |-> TRUE, segment |-> "LOCAL", type |-> FLOAT, offset |-> a - LOCAL_FLOAT_START]
      [] LOCAL_BOOL_START <= a /\ a < TEMP_INT_START ->
           [ok |-> TRUE, segment |-> "LOCAL", type |-> BOOL, offset |-> a - LOCAL_BOOL_START]
      [] TEMP_INT_START <= a /\ a < TEMP_FLOAT_START ->
           [ok |-> TRUE, segment |-> "TEMP", type |-> INT, offset |-> a - TEMP_INT_START]
      [] TEMP_FLOAT_START <= a /\ a < TEMP_BOOL_START ->
           [ok |-> TRUE, segment |-> "TEMP", type |-> FLOAT, offset |-> a - TEMP_FLOAT_START]
      [] TEMP_BOOL_START <= a /\ a < CONST_INT_START ->
           [ok |-> TRUE, segment |-> "TEMP", type |-> BOOL, offset |-> a - TEMP_BOOL_START]
      [] CONST_INT_START <= a /\ a < CONST_FLOAT_START ->
           [ok |-> TRUE, segment |-> "CONSTANT", type |-> INT, offset |-> a - CONST_INT_START]
      [] CONST_FLOAT_START <= a /\ a < CONST_STRING_START ->
           [ok |-> TRUE, segment |-> "CONSTANT", type |-> FLOAT, offset |-> a - CONST_FLOAT_START]
      [] CONST_STRING_START <= a /\ a < CONST_STRING_START + CONST_STRING_WIDTH ->
           [ok |-> TRUE, segment |-> "CONSTANT", type |-> STR, offset |-> a - CONST_STRING_START]
      [] OTHER ->
           [ok |-> FALSE, segment |-> "", type |-> "", offset |-> 0]

\* _get_storage_list_and_adjusted_offset: the attribute that holds the list
\* (of the memory for GLOBAL and CONSTANT, of the top frame for LOCAL and
\* TEMP) and the offset into it.
StorageList(mem, segment, data_type, original_offset) ==
    LET suffix == TypeSuffix(data_type)
        frame  == Last(mem.call_stack)
    IN  CASE segment = "GLOBAL" ->
               [in_frame |-> FALSE, attr |-> "global_" \o suffix, offset |-> original_offset]
          [] segment = "CONSTANT" ->
               [in_frame |-> FALSE, attr |-> "const_" \o suffix, offset |-> original_offset]
          [] segment = "LOCAL" ->
               [in_frame |-> TRUE, attr |-> "local_" \o suffix,
                offset   |-> IF frame.local_base = None
                               THEN original_offset
                               ELSE original_offset - (frame.local_base - LOCAL_INT_START)]
          [] segment = "TEMP" ->
               [in_frame |-> TRUE, attr |-> "temp_" \o suffix,
                offset   |-> IF frame.temp_base = None
                               THEN original_offset
                               ELSE original_offset - (frame.temp_base - TEMP_INT_START)]

\* The list a storage place names.
ListAt(mem, place) ==
    IF place.in_frame THEN Last(mem.call_stack)[place.attr] ELSE mem[place.attr]

\* WithList as it would be if every activation record shared its lists
\* (the lists created once, not per record).
WithListShared(mem, place, list) ==
    IF place.in_frame
      THEN [mem EXCEPT !.call_stack =
               [k \in DOMAIN mem.call_stack |->
                   [mem.call_stack[k] EXCEPT ![place.attr] = list]]]
      ELSE [mem EXCEPT ![place.attr] = list]

\* The memory with the list at a storage place replaced.
WithList(mem, place, list) ==
    IF place.in_frame
      THEN [mem EXCEPT !.call_stack[Len(mem.call_stack)][place.attr] = list]
      ELSE [mem EXCEPT ![place.attr] = list]

\* ExecutionMemory.read: [ok, error, value]
read(mem, virtual_address) ==
    LET d == decode_address(virtual_address)
    IN  IF ~d.ok
          THEN [ok |-> FALSE, error |-> "ValueError", value |-> 0]
          ELSE LET place == StorageList(mem, d.segment, d.type, d.offset)
                   list  == ListAt(mem, place)
               IN  IF place.offset < 0 \/ place.offset >= list.len
                     THEN [ok |-> FALSE, error |-> "IndexError", value |-> 0]
                     ELSE [ok |-> TRUE, error |-> "none",
                           value |-> ListGet(list, place.offset, TypeDefault(d.type))]

\* ExecutionMemory.write: [ok, error, memory]
write(mem, virtual_address, value) ==
    LET d == decode_address(virtual_address)
    IN  IF ~d.ok
          THEN [ok |-> FALSE, error |-> "ValueError", memory |-> mem]
          ELSE LET place  == StorageList(mem, d.segment, d.type, d.offset)
                   grown  == EnsureCapacity(ListAt(mem, place), place.offset)
                   stored == ListAssign(grown, place.offset, value, TypeDefault(d.type))
               IN  IF stored.ok
                     THEN [ok |-> TRUE, error |-> "none",
                           memory |-> WithList(mem, place, stored.list)]
                     ELSE [ok |-> FALSE, error |-> "IndexError", memory |-> mem]

prepare_frame(function_name, local_base_address, temp_base_address) ==
    ActivationRecord(function_name, local_base_address, temp_base_address)

push_frame(mem, frame) ==
    [mem EXCEPT !.call_stack = Append(@, frame)]

\* pop_frame without the guard that keeps the main frame.
pop_frame_unguarded(mem) ==
    IF mem.call_stack = << >>
      THEN [ok |-> FALSE, memory |-> mem]
      ELSE [ok |-> TRUE, memory |-> [mem EXCEPT !.call_stack = Front(@)]]

\* pop_frame: [ok, memory]; it raises RuntimeError on the main frame.
pop_frame(mem) ==
    IF Len(mem.call_stack) <= 1
      THEN [ok |-> FALSE, memory |-> mem]
      ELSE [ok |-> TRUE, memory |-> [mem EXCEPT !.call_stack = Front(@)]]

-----------------------------------------------------------------------------
(* semantics.py: the symbol tables.  A VariableTable and the functions     *)
(* dict are ordered by insertion.                                          *)

VariableInfo(name, var_type, is_parameter, parameter_position) ==
    [name               |-> name,
     var_type           |-> var_type,
     is_parameter       |-> is_parameter,
     parameter_position |-> parameter_position,
     virtual_address    |-> None]

FunctionInfo(name, return_type) ==
    [name            |-> name,
     return_type     |-> return_type,
     parameter_list  |-> << >>,
     local_variables |-> << >>]

FunctionDirectory ==
    [global_variables |-> << >>, functions |-> << >>]

\* name in table.variables
contains_variable(table, variable_name) ==
    \E i \in 1..Len(table) : table[i].name = variable_name

\* table.variables[name], for a name the table contains
get_variable(table, variable_name) ==
    table[CHOOSE i \in 1..Len(table) : table[i].name = variable_name]

\* name in directory.functions
HasFunction(directory, function_name) ==
    \E i \in 1..Len(directory.functions) : directory.functions[i].name = function_name

\* FunctionDirectory.get_function, for a declared function (it raises
\* UnknownFunctionError otherwise)
get_function(directory, function_name) ==
    directory.functions[CHOOSE i \in 1..Len(directory.functions) :
                            directory.functions[i].name = function_name]

\* A table that appends whatever it is given.
add_variable_unchecked(table, variable_name, variable_type, is_parameter, parameter_position) ==
    [ok |-> TRUE, error |-> "none",
     table |-> Append(table, VariableInfo(variable_name, variable_type,
                                          is_parameter, parameter_position))]

\* VariableTable.add_variable: [ok, error, table]
add_variable(table, variable_name, variable_type, is_parameter, parameter_position) ==
    IF contains_variable(table, variable_name)
      THEN [ok |-> FALSE, error |-> "DuplicateVariableError", table |-> table]
      ELSE IF variable_type \notin {INT, FLOAT}
        THEN [ok |-> FALSE, error |-> "InvalidTypeError", table |-> table]
        ELSE [ok |-> TRUE, error |-> "none",
              table |-> Append(table, VariableInfo(variable_name, variable_type,
                                                   is_parameter, parameter_position))]

\* FunctionInfo.add_parameter: [ok, error, function_info].  The entry is
\* appended to parameter_list before local_variables.add_variable runs.
add_parameter(function_info, parameter_name, parameter_type) ==
    IF \E i \in 1..Len(function_info.parameter_list) :
           function_info.parameter_list[i].name = parameter_name
      THEN [ok |-> FALSE, error |-> "DuplicateParameterError",
            function_info |-> function_info]
      ELSE LET parameter_position == Len(function_info.parameter_list)
               appended == [function_info EXCEPT !.parameter_list =
                               Append(@, VariableInfo(parameter_name, parameter_type,
                                                      TRUE, parameter_position))]
               added == add_variable(function_info.local_variables, parameter_name,
                                     parameter_type, TRUE, parameter_position)
           IN  [ok |-> added.ok, error |-> added.error,
                function_info |-> [appended EXCEPT !.local_variables = added.table]]

\* FunctionInfo.add_local_variable: [ok, error, function_info]
add_local_variable(function_info, variable_name, variable_type) ==
    LET added == add_variable(function_info.local_variables, variable_name,
                              variable_type, FALSE, None)
    IN  [ok |-> added.ok, error |-> added.error,
         function_info |-> [function_info EXCEPT !.local_variables = added.table]]

\* FunctionDirectory.add_global_variable: [ok, error, directory]
add_global_variable(directory, variable_name, variable_type) ==
    LET added == add_variable(directory.global_variables, variable_name,
                              variable_type, FALSE, None)
    IN  [ok |-> added.ok, error |-> added.error,
         directory |-> [directory EXCEPT !.global_variables = added.table]]

\* FunctionDirectory.add_function: [ok, error, directory].  Only VOID is
\* let through after the duplicate check.
add_function(directory, function_name, return_type) ==
    IF HasFunction(directory, function_name)
      THEN [ok |-> FALSE, error |-> "DuplicateFunctionError", directory |-> directory]
      ELSE IF return_type # VOID
        THEN [ok |-> FALSE, error |-> "InvalidTypeError", directory |-> directory]
        ELSE [ok |-> TRUE, error |-> "none",
              directory |-> [directory EXCEPT !.functions =
                                Append(@, FunctionInfo(function_name, return_type))]]

\* directory.functions[function_name] = function_info, for a declared function
WithFunction(directory, function_name, function_info) ==
    [directory EXCEPT !.functions =
        [i \in 1..Len(@) |-> IF @[i].name = function_name THEN function_info ELSE @[i]]]

\* FunctionDirectory.add_parameter_to_function: [ok, error, directory]
add_parameter_to_function(directory, function_name, parameter_name, parameter_type) ==
    IF ~HasFunction(directory, function_name)
      THEN [ok |-> FALSE, error |-> "UnknownFunctionError", directory |-> directory]
      ELSE LET added == add_parameter(get_function(directory, function_name),
                                      parameter_name, parameter_type)
           IN  [ok |-> added.ok, error |-> added.error,
                directory |-> WithFunction(directory, function_name, added.function_info)]

\* FunctionDirectory.add_local_variable_to_function: [ok, error, directory]
add_local_variable_to_function(directory, function_name, variable_name, variable_type) ==
    IF ~HasFunction(directory, function_name)
      THEN [ok |-> FALSE, error |-> "UnknownFunctionError", directory |-> directory]
      ELSE LET added == add_local_variable(get_function(directory, function_name),
                                           variable_name, variable_type)
           IN  [ok |-> added.ok, error |-> added.error,
                directory |-> WithFunction(directory, function_name, added.function_info)]

\* A lookup that searches the globals before the locals.
lookup_variable_globals_first(directory, variable_name, current_function_name) ==
    IF current_function_name # NoName /\ ~HasFunction(directory, current_function_name)
      THEN [ok |-> FALSE, error |-> "UnknownFunctionError", info |-> << >>]
      ELSE IF contains_variable(directory.global_variables, variable_name)
        THEN [ok |-> TRUE, error |-> "none",
              info |-> get_variable(directory.global_variables, variable_name)]
        ELSE IF current_function_name # NoName
                /\ contains_variable(get_function(directory, current_function_name).local_variables,
                                     variable_name)
          THEN [ok |-> TRUE, error |-> "none",
                info |-> get_variable(get_function(directory, current_function_name).local_variables,
                                      variable_name)]
          ELSE [ok |-> FALSE, error |-> "UnknownVariableError", info |-> << >>]

\* FunctionDirectory.lookup_variable: [ok, info]; current_function_name is
\* NoName for the main body.  An undeclared current function raises
\* UnknownFunctionError, an undeclared name UnknownVariableError.
lookup_variable(directory, variable_name, current_function_name) ==
    IF current_function_name # NoName /\ ~HasFunction(directory, current_function_name)
      THEN [ok |-> FALSE, error |-> "UnknownFunctionError", info |-> << >>]
      ELSE IF current_function_name # NoName
              /\ contains_variable(get_function(directory, current_function_name).local_variables,
                                   variable_name)
        THEN [ok |-> TRUE, error |-> "none",
              info |-> get_variable(get_function(directory, current_function_name).local_variables,
                                    variable_name)]
        ELSE IF contains_variable(directory.global_variables, variable_name)
          THEN [ok |-> TRUE, error |-> "none",
                info |-> get_variable(directory.global_variables, variable_name)]
          ELSE [ok |-> FALSE, error |-> "UnknownVariableError", info |-> << >>]

-----------------------------------------------------------------------------
(* virtual_memory.py: the allocator *)

MemoryCounters ==
    [global_int   |-> GLOBAL_INT_START,
     global_float |-> GLOBAL_FLOAT_START,
     global_bool  |-> GLOBAL_BOOL_START,
     local_int    |-> LOCAL_INT_START,
     local_float  |-> LOCAL_FLOAT_START,
     local_bool   |-> LOCAL_BOOL_START,
     temp_int     |-> TEMP_INT_START,
     temp_float   |-> TEMP_FLOAT_START,
     temp_bool    |-> TEMP_BOOL_START,
     const_int    |-> CONST_INT_START,
     const_float  |-> CONST_FLOAT_START,
     const_string |-> CONST_STRING_START]

VirtualMemory ==
    [counters                  |-> MemoryCounters,
     constant_table            |-> << >>,
     function_return_addresses |-> << >>]

\* The counter of a segment for a type: "global_int", "temp_bool", ...
CounterName(segment, type) ==
    segment \o (CASE type = INT   -> "_int"
                  [] type = FLOAT -> "_float"
                  [] type = BOOL  -> "_bool")

\* allocate_from_segment as it would be if it left the counter where it was.
allocate_from_segment_without_advance(vmem, segment_name) ==
    [address        |-> vmem.counters[segment_name],
     virtual_memory |-> vmem]

\* [address, virtual_memory]
allocate_from_segment(vmem, segment_name) ==
    [address        |-> vmem.counters[segment_name],
     virtual_memory |-> [vmem EXCEPT !.counters[segment_name] = @ + 1]]

\* allocate_global, for INT, FLOAT or BOOL (any other type raises ValueError)
allocate_global(vmem, variable_type) ==
    allocate_from_segment(vmem, CounterName("global", variable_type))

\* allocate_local, for INT, FLOAT or BOOL
allocate_local(vmem, variable_type) ==
    allocate_from_segment(vmem, CounterName("local", variable_type))

\* allocate_temporary, for INT, FLOAT or BOOL
allocate_temporary(vmem, temp_type) ==
    allocate_from_segment(vmem, CounterName("temp", temp_type))

\* ConstantTable.get_or_create via allocate_constant: [address, virtual_memory].
\* The table maps (literal_value, const_type) to an address, in insertion order.
allocate_constant(vmem, literal_value, const_type) ==
    LET table == vmem.constant_table
        found == {i \in 1..Len(table) : table[i].literal_value = literal_value
                                        /\ table[i].const_type = const_type}
    IN  IF found # {}
          THEN [address |-> table[CHOOSE i \in found : TRUE].address,
                virtual_memory |-> vmem]
          ELSE LET segment_name == CASE const_type = INT   -> "const_int"
                                     [] const_type = FLOAT -> "const_float"
                                     [] OTHER              -> "const_string"
                   got == allocate_from_segment(vmem, segment_name)
               IN  [address |-> got.address,
                    virtual_memory |->
                        [got.virtual_memory EXCEPT !.constant_table =
                            Append(@, [literal_value |-> literal_value,
                                       const_type    |-> const_type,
                                       address       |-> got.address])]]

HasReturnAddress(vmem, function_name) ==
    \E i \in 1..Len(vmem.function_return_addresses) :
        vmem.function_return_addresses[i].name = function_name

\* get_function_return_address, for a function that has one (KeyError otherwise)
get_function_return_address(vmem, function_name) ==
    LET slots == vmem.function_return_addresses
    IN  slots[CHOOSE i \in 1..Len(slots) : slots[i].name = function_name].address

\* allocate_function_return: [ok, error, address, virtual_memory].  VOID
\* raises ValueError; a registered name gets its slot whatever the type; any
\* other type than INT and FLOAT raises ValueError.
allocate_function_return(vmem, function_name, return_type) ==
    IF return_type = VOID
      THEN [ok |-> FALSE, error |-> "ValueError", address |-> None,
            virtual_memory |-> vmem]
      ELSE IF HasReturnAddress(vmem, function_name)
        THEN [ok |-> TRUE, error |-> "none",
              address        |-> get_function_return_address(vmem, function_name),
              virtual_memory |-> vmem]
        ELSE IF return_type \notin {INT, FLOAT}
          THEN [ok |-> FALSE, error |-> "ValueError", address |-> None,
                virtual_memory |-> vmem]
          ELSE LET got == allocate_from_segment(vmem, CounterName("global", return_type))
               IN  [ok |-> TRUE, error |-> "none", address |-> got.address,
                    virtual_memory |->
                        [got.virtual_memory EXCEPT !.function_return_addresses =
                            Append(@, [name |-> function_name, address |-> got.address])]]

\* The loop run from the last entry of the table to the first.
RECURSIVE AssignTable_backwards(_, _, _)
AssignTable_backwards(table, vmem, segment) ==
    IF table = << >>
      THEN [table |-> << >>, virtual_memory |-> vmem]
      ELSE LET variable_info == Last(table)
               got  == IF variable_info.virtual_address = None
                         THEN allocate_from_segment(
                                  vmem, CounterName(segment, variable_info.var_type))
                         ELSE [address |-> variable_info.virtual_address,
                               virtual_memory |-> vmem]
               rest == AssignTable_backwards(Front(table), got.virtual_memory, segment)
           IN  [table |->
                  Append(rest.table,
                         [variable_info EXCEPT !.virtual_address = got.address]),
                virtual_memory |-> rest.virtual_memory]

\* One loop of assign_variable_addresses over a variable table: every entry
\* without an address gets the next one of its segment.
RECURSIVE AssignTable(_, _, _)
AssignTable(table, vmem, segment) ==
    IF table = << >>
      THEN [table |-> << >>, virtual_memory |-> vmem]
      ELSE LET variable_info == Head(table)
               got  == IF variable_info.virtual_address = None
                         THEN allocate_from_segment(
                                  vmem, CounterName(segment, variable_info.var_type))
                         ELSE [address |-> variable_info.virtual_address,
                               virtual_memory |-> vmem]
               rest == AssignTable(Tail(table), got.virtual_memory, segment)
           IN  [table |-> << [variable_info EXCEPT !.virtual_address = got.address] >>
                            \o rest.table,
                virtual_memory |-> rest.virtual_memory]

\* Step b: each parameter_list entry takes the address of the local of its name.
SyncParameters(parameter_list, local_variables) ==
    [i \in 1..Len(parameter_list) |->
        IF contains_variable(local_variables, parameter_list[i].name)
          THEN [parameter_list[i] EXCEPT !.virtual_address =
                   get_variable(local_variables, parameter_list[i].name).virtual_address]
          ELSE parameter_list[i]]

\* Loop 2 of assign_variable_addresses, over the functions in dict order.
RECURSIVE AssignFunctions(_, _)
AssignFunctions(functions, vmem) ==
    IF functions = << >>
      THEN [functions |-> << >>, virtual_memory |-> vmem]
      ELSE LET function_info == Head(functions)
               locals  == AssignTable(function_info.local_variables, vmem, "local")
               synced  == [function_info EXCEPT
                             !.local_variables = locals.table,
                             !.parameter_list  = SyncParameters(@, locals.table)]
               vmem2   == IF function_info.return_type # VOID
                            THEN allocate_function_return(
                                     locals.virtual_memory, function_info.name,
                                     function_info.return_type).virtual_memory
                            ELSE locals.virtual_memory
               rest    == AssignFunctions(Tail(functions), vmem2)
           IN  [functions |-> << synced >> \o rest.functions,
                virtual_memory |-> rest.virtual_memory]

\* assign_variable_addresses: [function_directory, virtual_memory]
assign_variable_addresses(directory, vmem) ==
    LET globals   == AssignTable(directory.global_variables, vmem, "global")
        functions == AssignFunctions(directory.functions, globals.virtual_memory)
    IN  [function_directory |-> [global_variables |-> globals.table,
                                 functions        |-> functions.functions],
         virtual_memory     |-> functions.virtual_memory]

-----------------------------------------------------------------------------
(* execution_memory.load_constants *)

\* int(literal_value) and float(literal_value) for the lexemes of the
\* programs modelled; the floats among them have integral values.
ParseNumber(literal_value) ==
    CASE literal_value \in {"0", "0.0"} -> 0
      [] literal_value \in {"1", "1.0"} -> 1
      [] literal_value \in {"2", "2.0"} -> 2
      [] literal_value \in {"3", "3.0"} -> 3

\* literal_value.strip('"') for the string lexemes of the programs modelled
StripQuotes(literal_value) ==
    CASE literal_value = "\"a\"" -> "a"
      [] literal_value = "\"b\"" -> "b"
      [] OTHER                   -> literal_value

\* load_constants: [ok, error, memory]; the entries are written in table order.
RECURSIVE load_constants(_, _)
load_constants(mem, constant_table) ==
    IF constant_table = << >>
      THEN [ok |-> TRUE, error |-> "none", memory |-> mem]
      ELSE LET entry  == Head(constant_table)
               value  == IF entry.const_type \in {INT, FLOAT}
                           THEN ParseNumber(entry.literal_value)
                           ELSE StripQuotes(entry.literal_value)
               stored == write(mem, entry.address, value)
           IN  IF ~stored.ok
                 THEN stored
                 ELSE load_constants(stored.memory, Tail(constant_table))

-----------------------------------------------------------------------------
(* intermediate_code_structures.py: quadruples.  left_operand holds an     *)
(* address, or a function name in BEGINFUNC, ENDFUNC, ERA and GOSUB.       *)

Quadruple(operator, left_operand, right_operand, result) ==
    [operator      |-> operator,
     left_operand  |-> left_operand,
     right_operand |-> right_operand,
     result        |-> result]

-----------------------------------------------------------------------------
(* virtual_machine.py.  A machine is a record; a handler maps the machine  *)
(* and a quadruple to the machine after the handler returned or raised     *)
(* (error names the exception, and the fields are as the raise left them). *)
(* Numbers are modelled by their value: an int and a float of equal value  *)
(* are the same integer, as they are for Python's ==.                      *)

\* VirtualMachine.__init__; directory is << >> for None, else << directory >>.
VirtualMachine(quads, mem, directory) ==
    [quadruples           |-> quads,
     memory               |-> mem,
     function_directory   |-> directory,
     ip                   |-> 0,
     output               |-> << >>,
     halted               |-> FALSE,
     return_address_stack |-> << >>,
     pending_frame        |-> << >>,
     error                |-> "none"]

Raise(vm, exception) == [vm EXCEPT !.error = exception]

Digit(d) ==
    CASE d = 0 -> "0" [] d = 1 -> "1" [] d = 2 -> "2" [] d = 3 -> "3" [] d = 4 -> "4"
      [] d = 5 -> "5" [] d = 6 -> "6" [] d = 7 -> "7" [] d = 8 -> "8" [] d = 9 -> "9"

RECURSIVE NatToStr(_)
NatToStr(n) ==
    IF n < 10 THEN Digit(n) ELSE NatToStr(n \div 10) \o Digit(n % 10)

\* str(value) of a number
IntToStr(value) ==
    IF value < 0 THEN "-" \o NatToStr(-value) ELSE NatToStr(value)

ArithmeticOperators == {"MAS", "MENOS", "POR", "ENTRE"}

RelationalOperators == {"MAYOR", "MENOR", "IGUAL", "DIFERENTE"}

SupportedOperators ==
    ArithmeticOperators \cup RelationalOperators \cup
    {"ASSIGN", "PRINT", "GOTO", "GOTOF", "UMINUS", "BEGINFUNC", "ENDFUNC",
     "ERA", "PARAM", "GOSUB"}

execute_arithmetic(vm, quad) ==
    LET left  == read(vm.memory, quad.left_operand)
        right == read(vm.memory, quad.right_operand)
    IN  IF ~left.ok THEN Raise(vm, left.error)
        ELSE IF ~right.ok THEN Raise(vm, right.error)
        ELSE IF quad.operator = "ENTRE" /\ right.value = 0
          THEN Raise(vm, "ZeroDivisionError")
        ELSE LET result == CASE quad.operator = "MAS"   -> left.value + right.value
                             [] quad.operator = "MENOS" -> left.value - right.value
                             [] quad.operator = "POR"   -> left.value * right.value
                             [] quad.operator = "ENTRE" -> left.value \div right.value
                 stored == write(vm.memory, quad.result, result)
             IN  IF ~stored.ok THEN Raise(vm, stored.error)
                 ELSE [vm EXCEPT !.memory = stored.memory, !.ip = @ + 1]

execute_relational(vm, quad) ==
    LET left  == read(vm.memory, quad.left_operand)
        right == read(vm.memory, quad.right_operand)
    IN  IF ~left.ok THEN Raise(vm, left.error)
        ELSE IF ~right.ok THEN Raise(vm, right.error)
        ELSE LET result == CASE quad.operator = "MAYOR"     -> left.value > right.value
                             [] quad.operator = "MENOR"     -> left.value < right.value
                             [] quad.operator = "IGUAL"     -> left.value = right.value
                             [] quad.operator = "DIFERENTE" -> left.value # right.value
                 stored == write(vm.memory, quad.result, IF result THEN 1 ELSE 0)
             IN  IF ~stored.ok THEN Raise(vm, stored.error)
                 ELSE [vm EXCEPT !.memory = stored.memory, !.ip = @ + 1]

execute_assign(vm, quad) ==
    LET value == read(vm.memory, quad.left_operand)
    IN  IF ~value.ok THEN Raise(vm, value.error)
        ELSE LET stored == write(vm.memory, quad.result, value.value)
             IN  IF ~stored.ok THEN Raise(vm, stored.error)
                 ELSE [vm EXCEPT !.memory = stored.memory, !.ip = @ + 1]

execute_print(vm, quad) ==
    LET value == read(vm.memory, quad.left_operand)
    IN  IF ~value.ok THEN Raise(vm, value.error)
        ELSE LET output_str == IF decode_address(quad.left_operand).type = STR
                                 THEN value.value
                                 ELSE IntToStr(value.value)
             IN  [vm EXCEPT !.output = Append(@, output_str), !.ip = @ + 1]

execute_goto(vm, quad) ==
    [vm EXCEPT !.ip = quad.result]

execute_gotof(vm, quad) ==
    LET condition == read(vm.memory, quad.left_operand)
    IN  IF ~condition.ok THEN Raise(vm, condition.error)
        ELSE IF condition.value = 0
          THEN [vm EXCEPT !.ip = quad.result]
          ELSE [vm EXCEPT !.ip = @ + 1]

execute_uminus(vm, quad) ==
    LET value == read(vm.memory, quad.left_operand)
    IN  IF ~value.ok THEN Raise(vm, value.error)
        ELSE LET stored == write(vm.memory, quad.result, -value.value)
             IN  IF ~stored.ok THEN Raise(vm, stored.error)
                 ELSE [vm EXCEPT !.memory = stored.memory, !.ip = @ + 1]

\* The scan of _execute_beginfunc from index next_ip: the index just after
\* the ENDFUNC that closes function_name, or None when the list ends first.
RECURSIVE FindEndfunc(_, _, _, _)
FindEndfunc(quads, next_ip, depth, function_name) ==
    IF ~(next_ip < Len(quads) /\ depth > 0)
      THEN None
      ELSE LET next_quad == quads[next_ip + 1]
           IN  IF next_quad.operator = "BEGINFUNC"
                 THEN FindEndfunc(quads, next_ip + 1, depth + 1, function_name)
                 ELSE IF next_quad.operator = "ENDFUNC"
                         /\ next_quad.left_operand = function_name
                   THEN IF depth - 1 = 0
                          THEN next_ip + 1
                          ELSE FindEndfunc(quads, next_ip + 1, depth - 1, function_name)
                   ELSE FindEndfunc(quads, next_ip + 1, depth, function_name)

\* execute_beginfunc as it would be if it entered the body whatever the
\* depth of the call stack.
execute_beginfunc_enters(vm, quad) ==
    [vm EXCEPT !.ip = @ + 1]

execute_beginfunc(vm, quad) ==
    IF Len(vm.memory.call_stack) > 1
      THEN [vm EXCEPT !.ip = @ + 1]
      ELSE LET after == FindEndfunc(vm.quadruples, vm.ip + 1, 1, quad.left_operand)
           IN  IF after = None
                 THEN Raise(vm, "RuntimeError")
                 ELSE [vm EXCEPT !.ip = after]

\* execute_endfunc as it would be if it returned to the caller without
\* popping the frame of the callee.
execute_endfunc_keeps_frame(vm, quad) ==
    IF vm.return_address_stack = << >>
      THEN [vm EXCEPT !.halted = TRUE]
      ELSE [vm EXCEPT !.return_address_stack = Front(@),
                      !.ip = Last(vm.return_address_stack)]

\* _execute_endfunc: pop_frame comes first and raises on the main frame.
execute_endfunc(vm, quad) ==
    LET popped == pop_frame(vm.memory)
    IN  IF ~popped.ok
          THEN Raise(vm, "RuntimeError")
          ELSE IF vm.return_address_stack = << >>
                 THEN [vm EXCEPT !.memory = popped.memory, !.halted = TRUE]
                 ELSE [vm EXCEPT !.memory = popped.memory,
                                 !.return_address_stack = Front(@),
                                 !.ip = Last(vm.return_address_stack)]

\* The LOCAL addresses of a function's variables, in dict order.
LocalAddresses(function_info) ==
    LET addresses == [i \in 1..Len(function_info.local_variables) |->
                         function_info.local_variables[i].virtual_address]
    IN  SelectSeq(addresses,
                  LAMBDA a : a # None /\ LOCAL_INT_START <= a /\ a < TEMP_INT_START)

\* _compute_function_base_addresses: (local_base, temp_base)
compute_function_base_addresses(vm, function_name) ==
    IF vm.function_directory = << >>
      THEN << 0, 0 >>
      ELSE IF ~HasFunction(vm.function_directory[1], function_name)
        THEN << 0, 0 >>
        ELSE LET local_addresses ==
                     LocalAddresses(get_function(vm.function_directory[1], function_name))
             IN  << IF local_addresses # << >> THEN SeqMin(local_addresses) ELSE 0, 0 >>

\* execute_era as it would be if ERA activated the frame it prepares.
execute_era_activating(vm, quad) ==
    LET bases == compute_function_base_addresses(vm, quad.left_operand)
        frame == prepare_frame(quad.left_operand, bases[1], bases[2])
    IN  [vm EXCEPT !.pending_frame = << frame >>,
                   !.memory = push_frame(@, frame),
                   !.ip = @ + 1]

execute_era(vm, quad) ==
    LET bases == compute_function_base_addresses(vm, quad.left_operand)
    IN  [vm EXCEPT !.pending_frame = << prepare_frame(quad.left_operand, bases[1], bases[2]) >>,
                   !.ip = @ + 1]

\* The list of the pending frame that _execute_param stores into.
ParamStorage(data_type) ==
    CASE data_type = INT   -> "local_ints"
      [] data_type = FLOAT -> "local_floats"
      [] data_type = BOOL  -> "local_bools"

\* execute_param as it would be if it looked at no pending frame and only
\* went on to the next quadruple.
execute_param_skips(vm, quad) ==
    [vm EXCEPT !.ip = @ + 1]

execute_param(vm, quad) ==
    IF vm.pending_frame = << >>
      THEN Raise(vm, "RuntimeError")
      ELSE LET arg_value == read(vm.memory, quad.left_operand)
               data_type == decode_address(quad.left_operand).type
               param_offset == quad.result - 1
           IN  IF ~arg_value.ok THEN Raise(vm, arg_value.error)
               ELSE IF data_type \notin {INT, FLOAT, BOOL} THEN Raise(vm, "ValueError")
               ELSE LET attr   == ParamStorage(data_type)
                        grown  == EnsureCapacity(vm.pending_frame[1][attr], param_offset)
                        stored == ListAssign(grown, param_offset, arg_value.value,
                                             TypeDefault(data_type))
                    IN  IF ~stored.ok
                          THEN Raise([vm EXCEPT !.pending_frame[1][attr] = grown],
                                     "IndexError")
                          ELSE [vm EXCEPT !.pending_frame[1][attr] = stored.list,
                                          !.ip = @ + 1]

\* execute_gosub as it would be if it saved its own index as the return address.
execute_gosub_return_to_self(vm, quad) ==
    IF vm.pending_frame = << >>
      THEN Raise(vm, "RuntimeError")
      ELSE [vm EXCEPT !.return_address_stack = Append(@, vm.ip),
                      !.memory = push_frame(@, vm.pending_frame[1]),
                      !.pending_frame = << >>,
                      !.ip = quad.result]

\* execute_gosub as it would be if an unset result fell through to the
\* quadruple after the call.
execute_gosub_falls_through(vm, quad) ==
    IF vm.pending_frame = << >>
      THEN Raise(vm, "RuntimeError")
      ELSE [vm EXCEPT !.return_address_stack = Append(@, vm.ip + 1),
                      !.memory = push_frame(@, vm.pending_frame[1]),
                      !.pending_frame = << >>,
                      !.ip = IF quad.result = None THEN vm.ip + 1 ELSE quad.result]

execute_gosub(vm, quad) ==
    IF vm.pending_frame = << >>
      THEN Raise(vm, "RuntimeError")
      ELSE [vm EXCEPT !.return_address_stack = Append(@, vm.ip + 1),
                      !.memory = push_frame(@, vm.pending_frame[1]),
                      !.pending_frame = << >>,
                      !.ip = quad.result]

\* execute_quadruple: the dispatch on the operator
execute_quadruple(vm, quad) ==
    CASE quad.operator \in ArithmeticOperators -> execute_arithmetic(vm, quad)
      [] quad.operator \in RelationalOperators -> execute_relational(vm, quad)
      [] quad.operator = "ASSIGN"    -> execute_assign(vm, quad)
      [] quad.operator = "PRINT"     -> execute_print(vm, quad)
      [] quad.operator = "GOTO"      -> execute_goto(vm, quad)
      [] quad.operator = "GOTOF"     -> execute_gotof(vm, quad)
      [] quad.operator = "UMINUS"    -> execute_uminus(vm, quad)
      [] quad.operator = "BEGINFUNC" -> execute_beginfunc(vm, quad)
      [] quad.operator = "ENDFUNC"   -> execute_endfunc(vm, quad)
      [] quad.operator = "ERA"       -> execute_era(vm, quad)
      [] quad.operator = "PARAM"     -> execute_param(vm, quad)
      [] quad.operator = "GOSUB"     -> execute_gosub(vm, quad)
      [] OTHER                       -> Raise(vm, "ValueError")

-----------------------------------------------------------------------------
(* The machine as a state machine: run() executes quadruples[ip] until ip  *)
(* leaves the list, halted is set or a handler raises.                     *)

\* The bound on the call depth GOSUB and push_frame are explored to.
MaxDepth == 4

\* The largest argument of the hand-written programs.
MaxArg == 2

\* The VirtualMachine object, read from the variables.
VM ==
    [quadruples           |-> quadruples,
     memory               |-> memory,
     function_directory   |-> << function_directory >>,
     ip                   |-> ip,
     output               |-> output,
     halted               |-> halted,
     return_address_stack |-> return_address_stack,
     pending_frame        |-> pending_frame,
     error                |-> "none"]

\* The variables take the fields of the machine a handler left.  Back in
\* run(), the loop test "self.ip < len(self.quadruples)" raises TypeError
\* when a jump stored an unset (None) result in ip.
Becomes(after) ==
    /\ memory' = after.memory
    /\ ip' = after.ip
    /\ halted' = after.halted
    /\ return_address_stack' = after.return_address_stack
    /\ pending_frame' = after.pending_frame
    /\ output' = after.output
    /\ vm_error' = IF after.error = "none" /\ after.ip = None
                     THEN "TypeError"
                     ELSE after.error

\* The guard of run()'s loop, for a machine no exception has left.
Running ==
    /\ phase = "run"
    /\ vm_error = "none"
    /\ ~halted
    /\ ip < Len(quadruples)

CurrentQuad == quadruples[ip + 1]

Fixed == UNCHANGED << function_directory, virtual_memory, program_tree, generator,
                      phase, quadruples >>

ExecuteArithmetic ==
    /\ Running
    /\ CurrentQuad.operator \in ArithmeticOperators
    /\ Becomes(execute_arithmetic(VM, CurrentQuad))
    /\ UNCHANGED calls
    /\ Fixed

ExecuteRelational ==
    /\ Running
    /\ CurrentQuad.operator \in RelationalOperators
    /\ Becomes(execute_relational(VM, CurrentQuad))
    /\ UNCHANGED calls
    /\ Fixed

ExecuteAssign ==
    /\ Running
    /\ CurrentQuad.operator = "ASSIGN"
    /\ Becomes(execute_assign(VM, CurrentQuad))
    /\ UNCHANGED calls
    /\ Fixed

ExecutePrint ==
    /\ Running
    /\ CurrentQuad.operator = "PRINT"
    /\ Becomes(execute_print(VM, CurrentQuad))
    /\ UNCHANGED calls
    /\ Fixed

ExecuteGoto ==
    /\ Running
    /\ CurrentQuad.operator = "GOTO"
    /\ Becomes(execute_goto(VM, CurrentQuad))
    /\ UNCHANGED calls
    /\ Fixed

ExecuteGotof ==
    /\ Running
    /\ CurrentQuad.operator = "GOTOF"
    /\ Becomes(execute_gotof(VM, CurrentQuad))
    /\ UNCHANGED calls
    /\ Fixed

ExecuteUminus ==
    /\ Running
    /\ CurrentQuad.operator = "UMINUS"
    /\ Becomes(execute_uminus(VM, CurrentQuad))
    /\ UNCHANGED calls
    /\ Fixed

ExecuteBeginfunc ==
    /\ Running
    /\ CurrentQuad.operator = "BEGINFUNC"
    /\ Becomes(execute_beginfunc(VM, CurrentQuad))
    /\ UNCHANGED calls
    /\ Fixed

\* calls drops the entry of the call that returns.
ExecuteEndfunc ==
    /\ Running
    /\ CurrentQuad.operator = "ENDFUNC"
    /\ LET after == execute_endfunc(VM, CurrentQuad)
       IN  /\ Becomes(after)
           /\ calls' = IF after.error = "none" /\ calls # << >>
                         THEN Front(calls)
                         ELSE calls
    /\ Fixed

ExecuteEra ==
    /\ Running
    /\ CurrentQuad.operator = "ERA"
    /\ Becomes(execute_era(VM, CurrentQuad))
    /\ UNCHANGED calls
    /\ Fixed

ExecuteParam ==
    /\ Running
    /\ CurrentQuad.operator = "PARAM"
    /\ Becomes(execute_param(VM, CurrentQuad))
    /\ UNCHANGED calls
    /\ Fixed

\* calls records the index of the GOSUB and the memory it found.
ExecuteGosub ==
    /\ Running
    /\ CurrentQuad.operator = "GOSUB"
    /\ Len(memory.call_stack) < MaxDepth
    /\ LET after == execute_gosub(VM, CurrentQuad)
       IN  /\ Becomes(after)
           /\ calls' = IF after.error = "none"
                         THEN Append(calls, [site |-> ip, memory |-> memory])
                         ELSE calls
    /\ Fixed

\* The else branch of execute_quadruple
ExecuteUnsupported ==
    /\ Running
    /\ CurrentQuad.operator \notin SupportedOperators
    /\ Becomes(execute_quadruple(VM, CurrentQuad))
    /\ UNCHANGED calls
    /\ Fixed

-----------------------------------------------------------------------------
(* Hand-written quadruple programs for a machine constructed directly      *)
(* (VirtualMachine(quadruples, memory, directory)), with the operator      *)
(* names the machine dispatches on.                                        *)

\* void f(n: int) { var m: int; ... }
HandFunctionF ==
    add_local_variable(
        add_parameter(FunctionInfo("f", VOID), "n", INT).function_info,
        "m", INT).function_info

\* void g(a: int, b: int)
HandFunctionG ==
    add_parameter(
        add_parameter(FunctionInfo("g", VOID), "a", INT).function_info,
        "b", INT).function_info

\* void h()
HandFunctionH == FunctionInfo("h", VOID)

\* The directory of the hand-written programs, before addresses.
HandDeclared ==
    [add_global_variable(
         add_global_variable(FunctionDirectory, "x", INT).directory,
         "y", FLOAT).directory
     EXCEPT !.functions = << HandFunctionF, HandFunctionG, HandFunctionH >>]

HandAssigned == assign_variable_addresses(HandDeclared, VirtualMemory)

\* The literals of the hand-written programs, interned in this order.
HandLiterals ==
    << << "0", INT >>, << "1", INT >>, << "2", INT >>, << "3", INT >>,
       << "\"a\"", STR >> >>

RECURSIVE InternAll(_, _)
InternAll(vmem, literals) ==
    IF literals = << >>
      THEN vmem
      ELSE InternAll(allocate_constant(vmem, Head(literals)[1], Head(literals)[2]).virtual_memory,
                     Tail(literals))

HandVirtualMemory == InternAll(HandAssigned.virtual_memory, HandLiterals)

\* The address of the integer literal n
K(n) == CONST_INT_START + n

\* Addresses of the hand-written programs: globals x, y; f's n, m; g's a, b.
X == GLOBAL_INT_START

Y == GLOBAL_FLOAT_START

FN == LOCAL_INT_START

FM == LOCAL_INT_START + 1

GA == LOCAL_INT_START + 2

GB == LOCAL_INT_START + 3

TI == TEMP_INT_START

TF == TEMP_FLOAT_START

TB == TEMP_BOOL_START

S0 == CONST_STRING_START

\* Quadruples 0..22: f counts down recursively, g calls f, h calls itself.
HandFunctions ==
    << Quadruple("BEGINFUNC", "f", None, None),       \* 0
       Quadruple("ASSIGN", FN, None, FM),             \* 1
       Quadruple("MAYOR", FN, K(0), TB),              \* 2
       Quadruple("GOTOF", TB, None, 9),               \* 3
       Quadruple("MENOS", FN, K(1), TI),              \* 4
       Quadruple("ERA", "f", None, None),             \* 5
       Quadruple("PARAM", TI, None, 1),               \* 6
       Quadruple("GOSUB", "f", None, 1),              \* 7
       Quadruple("PRINT", FM, None, None),            \* 8
       Quadruple("ENDFUNC", "f", None, None),         \* 9
       Quadruple("BEGINFUNC", "g", None, None),       \* 10
       Quadruple("POR", GA, GB, TI),                  \* 11
       Quadruple("ERA", "f", None, None),             \* 12
       Quadruple("PARAM", GB, None, 1),               \* 13
       Quadruple("GOSUB", "f", None, 1),              \* 14
       Quadruple("UMINUS", TI, None, TI + 1),         \* 15
       Quadruple("PRINT", TI + 1, None, None),        \* 16
       Quadruple("IGUAL", GA, GB, TB),                \* 17
       Quadruple("ENDFUNC", "g", None, None),         \* 18
       Quadruple("BEGINFUNC", "h", None, None),       \* 19
       Quadruple("ERA", "h", None, None),             \* 20
       Quadruple("GOSUB", "h", None, 20),             \* 21
       Quadruple("ENDFUNC", "h", None, None) >>       \* 22

\* The index of the first quadruple of the main body.
M == Len(HandFunctions)

\* The main bodies: variant i with argument n.
HandMain(i, n) ==
    CASE i = 1 ->   \* x = n; f(x); print x, "a"
           << Quadruple("ASSIGN", K(n), None, X),
              Quadruple("ERA", "f", None, None),
              Quadruple("PARAM", X, None, 1),
              Quadruple("GOSUB", "f", None, 1),
              Quadruple("PRINT", X, None, None),
              Quadruple("PRINT", S0, None, None) >>
      [] i = 2 ->   \* g(n, 1); y = n / n; print y
           << Quadruple("ERA", "g", None, None),
              Quadruple("PARAM", K(n), None, 1),
              Quadruple("PARAM", K(1), None, 2),
              Quadruple("GOSUB", "g", None, 11),
              Quadruple("ENTRE", K(n), K(n), TF),
              Quadruple("ASSIGN", TF, None, Y),
              Quadruple("PRINT", Y, None, None) >>
      [] i = 3 ->   \* x = n; while (0 < x) { x = x - 1; } print x != 0
           << Quadruple("ASSIGN", K(n), None, X),
              Quadruple("MENOR", K(0), X, TB),
              Quadruple("GOTOF", TB, None, M + 6),
              Quadruple("MENOS", X, K(1), TI),
              Quadruple("ASSIGN", TI, None, X),
              Quadruple("GOTO", None, None, M + 1),
              Quadruple("DIFERENTE", X, K(0), TB),
              Quadruple("MAS", X, K(n), TI),
              Quadruple("PRINT", TI, None, None) >>
      [] i = 4 ->   \* ENDFUNC on a machine that made no call
           << Quadruple("ENDFUNC", "f", None, None),
              Quadruple("PRINT", K(1), None, None) >>
      [] i = 5 ->   \* PARAM without ERA
           << Quadruple("PARAM", K(1), None, 1) >>
      [] i = 6 ->   \* GOSUB without ERA
           << Quadruple("GOSUB", "f", None, 1) >>
      [] i = 7 ->   \* an operator the machine does not dispatch on
           << Quadruple("PLUS", K(1), K(2), TI) >>
      [] i = 8 ->   \* a jump whose result was never set
           << Quadruple("GOTO", None, None, None),
              Quadruple("PRINT", K(1), None, None) >>
      [] i = 9 ->   \* h(): unbounded recursion
           << Quadruple("ERA", "h", None, None),
              Quadruple("GOSUB", "h", None, 20) >>
      [] i = 10 ->  \* a read of a global never written
           << Quadruple("PRINT", X + 1, None, None) >>
      [] i = 11 ->  \* two ERA before one call; a string argument
           << Quadruple("ERA", "g", None, None),
              Quadruple("ERA", "f", None, None),
              Quadruple("PARAM", K(n), None, 1),
              Quadruple("GOSUB", "f", None, 1),
              Quadruple("ERA", "f", None, None),
              Quadruple("PARAM", S0, None, 1) >>
      [] i = 12 ->  \* a BEGINFUNC that no ENDFUNC closes
           << Quadruple("BEGINFUNC", "z", None, None),
              Quadruple("PRINT", K(1), None, None) >>
      [] i = 13 ->  \* f(n) through a GOSUB whose result was never set
           << Quadruple("ERA", "f", None, None),
              Quadruple("PARAM", K(n), None, 1),
              Quadruple("GOSUB", "f", None, None),
              Quadruple("PRINT", K(1), None, None) >>
      [] i = 14 ->  \* f(n), then a PARAM that no ERA precedes
           << Quadruple("ERA", "f", None, None),
              Quadruple("PARAM", K(n), None, 1),
              Quadruple("GOSUB", "f", None, 1),
              Quadruple("PARAM", K(1), None, 1) >>
      [] i = 15 ->  \* f(n), then a GOSUB that no ERA precedes
           << Quadruple("ERA", "f", None, None),
              Quadruple("PARAM", K(n), None, 1),
              Quadruple("GOSUB", "f", None, 1),
              Quadruple("GOSUB", "f", None, 1) >>

HandMains == 1..15

HandProgram(i, n) == HandFunctions \o HandMain(i, n)

\* A machine constructed on a hand-written program, its constants loaded.
InitMachine(quads) ==
    /\ function_directory = HandAssigned.function_directory
    /\ virtual_memory = HandVirtualMemory
    /\ program_tree = << >>
    /\ generator = << >>
    /\ phase = "run"
    /\ quadruples = quads
    /\ memory = load_constants(ExecutionMemory, HandVirtualMemory.constant_table).memory
    /\ ip = 0
    /\ halted = FALSE
    /\ return_address_stack = << >>
    /\ pending_frame = << >>
    /\ output = << >>
    /\ vm_error = "none"
    /\ calls = << >>

InitVM ==
    \E i \in HandMains, n \in 0..MaxArg : InitMachine(HandProgram(i, n))

NextVM ==
    \/ ExecuteArithmetic
    \/ ExecuteRelational
    \/ ExecuteAssign
    \/ ExecutePrint
    \/ ExecuteGoto
    \/ ExecuteGotof
    \/ ExecuteUminus
    \/ ExecuteBeginfunc
    \/ ExecuteEndfunc
    \/ ExecuteEra
    \/ ExecuteParam
    \/ ExecuteGosub
    \/ ExecuteUnsupported

SpecVM == InitVM /\ [][NextVM]_vars

-----------------------------------------------------------------------------
(* The client of the memory: prepare_frame, push_frame and pop_frame       *)
(* called on the ExecutionMemory between the steps of the machine.         *)

\* The bound on the call depth the client pushes frames to.
MaxClientDepth == 3

\* The program the client's machine runs: one call, one branch, every handler.
ClientProgram ==
    << Quadruple("BEGINFUNC", "f", None, None),       \* 0
       Quadruple("UMINUS", FN, None, TI),             \* 1
       Quadruple("ENDFUNC", "f", None, None),         \* 2
       Quadruple("ERA", "f", None, None),             \* 3
       Quadruple("PARAM", K(1), None, 1),             \* 4
       Quadruple("GOSUB", "f", None, 1),              \* 5
       Quadruple("MAYOR", K(1), K(0), TB),            \* 6
       Quadruple("GOTOF", TB, None, 9),               \* 7
       Quadruple("GOTO", None, None, 10),             \* 8
       Quadruple("PRINT", K(2), None, None),          \* 9
       Quadruple("MAS", K(1), K(2), X),               \* 10
       Quadruple("ASSIGN", X, None, Y),               \* 11
       Quadruple("PRINT", Y, None, None),             \* 12
       Quadruple("PLUS", K(1), K(2), TI) >>           \* 13

\* The names the client prepares frames for; "k" is not in the directory.
ClientFrameNames == {"f", "g", "k"}

\* The frame prepare_frame returns for a name, with the bases ERA computes.
ClientFrame(function_name) ==
    LET bases == compute_function_base_addresses(VM, function_name)
    IN  prepare_frame(function_name, bases[1], bases[2])

\* prepare_frame returns a record and changes nothing.
PrepareFrame ==
    /\ phase = "run"
    /\ vm_error = "none"
    /\ \E function_name \in ClientFrameNames :
           ClientFrame(function_name).function_name = function_name
    /\ UNCHANGED vars

PushFrame ==
    /\ phase = "run"
    /\ vm_error = "none"
    /\ Len(memory.call_stack) < MaxClientDepth
    /\ \E function_name \in ClientFrameNames :
           memory' = push_frame(memory, ClientFrame(function_name))
    /\ UNCHANGED << ip, halted, return_address_stack, pending_frame, output,
                    vm_error, calls >>
    /\ Fixed

\* A pop_frame that raises ends the client's run with RuntimeError.
PopFrame ==
    /\ phase = "run"
    /\ vm_error = "none"
    /\ LET popped == pop_frame(memory)
       IN  /\ memory' = popped.memory
           /\ vm_error' = IF popped.ok THEN "none" ELSE "RuntimeError"
    /\ UNCHANGED << ip, halted, return_address_stack, pending_frame, output, calls >>
    /\ Fixed

NextMem ==
    \/ NextVM
    \/ PrepareFrame
    \/ PushFrame
    \/ PopFrame

InitMem == InitMachine(ClientProgram)

SpecMem == InitMem /\ [][NextMem]_vars

-----------------------------------------------------------------------------
(* semantics.py: the semantic cube and the type checks *)

OPERATOR_ALIASES ==
    [symbol \in {"+", "-", "*", "/", ">", "<", "!=", "=="} |->
        CASE symbol = "+"  -> "PLUS"
          [] symbol = "-"  -> "MINUS"
          [] symbol = "*"  -> "STAR"
          [] symbol = "/"  -> "SLASH"
          [] symbol = ">"  -> "GREATER"
          [] symbol = "<"  -> "LESS"
          [] symbol = "!=" -> "NOTEQUAL"
          [] symbol = "==" -> "EQUAL"]

\* A cube whose division of two integers stays an integer.
SEMANTIC_CUBE_integer_division ==
    [operator \in {"PLUS", "MINUS", "STAR", "SLASH",
                   "GREATER", "LESS", "NOTEQUAL", "EQUAL"} |->
        [pair \in {INT, FLOAT} \X {INT, FLOAT} |->
            IF operator \in {"GREATER", "LESS", "NOTEQUAL", "EQUAL"} THEN BOOL
            ELSE IF pair = << INT, INT >> THEN INT
            ELSE FLOAT]]

SEMANTIC_CUBE ==
    [operator \in {"PLUS", "MINUS", "STAR", "SLASH",
                   "GREATER", "LESS", "NOTEQUAL", "EQUAL"} |->
        [pair \in {INT, FLOAT} \X {INT, FLOAT} |->
            IF operator \in {"GREATER", "LESS", "NOTEQUAL", "EQUAL"} THEN BOOL
            ELSE IF operator = "SLASH" THEN FLOAT
            ELSE IF pair = << INT, INT >> THEN INT
            ELSE FLOAT]]

normalize_operator(operator) ==
    IF operator \in DOMAIN OPERATOR_ALIASES THEN OPERATOR_ALIASES[operator] ELSE operator

\* result_type: [ok, type]; it raises InvalidTypeError when not ok
result_type(operator, left_type, right_type) ==
    LET normalized_operator == normalize_operator(operator)
    IN  IF normalized_operator \in DOMAIN SEMANTIC_CUBE
           /\ << left_type, right_type >> \in DOMAIN SEMANTIC_CUBE[normalized_operator]
          THEN [ok |-> TRUE,
                type |-> SEMANTIC_CUBE[normalized_operator][<< left_type, right_type >>]]
          ELSE [ok |-> FALSE, type |-> NoName]

\* An assignment check that lets a FLOAT value narrow into an INT target.
assert_assign_narrowing(left_type, right_type) ==
    left_type \in {INT, FLOAT} /\ right_type \in {INT, FLOAT}

\* assert_assign returns (TRUE) or raises InvalidTypeError (FALSE)
assert_assign(left_type, right_type) ==
    IF left_type = INT THEN right_type = INT
    ELSE IF left_type = FLOAT THEN right_type \in {INT, FLOAT}
    ELSE FALSE

\* ensure_bool returns (TRUE) or raises InvalidTypeError (FALSE)
ensure_bool(expression_type) == expression_type = BOOL

\* assert_return: the exception it raises, "none" when it returns.
\* expression_type is NoName for a return without a value.
assert_return(directory, current_function_name, expression_type) ==
    LET return_type == get_function(directory, current_function_name).return_type
    IN  IF return_type = VOID
          THEN IF expression_type = NoName THEN "none" ELSE "InvalidTypeError"
          ELSE IF expression_type = NoName THEN "MissingReturnValue"
          ELSE IF assert_assign(return_type, expression_type) THEN "none"
          ELSE "InvalidTypeError"

-----------------------------------------------------------------------------
(* The parse tree: lark's Tree(data, children) and Token(type, value) *)

Tree(data, children) == [kind |-> "Tree", data |-> data, children |-> children]

Token(type, value) == [kind |-> "Token", type |-> type, value |-> value]

\* isinstance(node, Tree) and node.data == data
IsTree(node, data) == node.kind = "Tree" /\ node.data = data

\* isinstance(node, Token) and node.type == type
IsToken(node, type) == node.kind = "Token" /\ node.type = type

\* The children that are Tree(data, ...), in order.
Trees(children, data) ==
    LET Test(child) == IsTree(child, data) IN SelectSeq(children, Test)

\* The children that are Token(type, ...), in order.
Tokens(children, type) ==
    LET Test(child) == IsToken(child, type) IN SelectSeq(children, Test)

-----------------------------------------------------------------------------
(* intermediate_code_structures.py and the generator's own fields *)

IntermediateCodeContext ==
    [operator_stack |-> << >>,
     operand_stack  |-> << >>,
     type_stack     |-> << >>,
     quadruples     |-> << >>]

\* A dict keyed by function names, before its first entry.
EmptyDict == [function_name \in {} |-> None]

\* dict.get(key), with the default given
DictGet(dict, key, default) == IF key \in DOMAIN dict THEN dict[key] ELSE default

\* dict[key] = value
DictSet(dict, key, value) ==
    [k \in DOMAIN dict \cup {key} |-> IF k = key THEN value ELSE dict[k]]

\* ExpressionQuadrupleGenerator.__init__.  error is the exception that left
\* the generator ("none" while none has), result the ExpressionResult the
\* last _generate_* call returned, arguments the list _generate_args returned
\* and patches the record of the update_result calls made so far; marks is
\* the record of the queue lengths an if or a while saw around its blocks.
ExpressionQuadrupleGenerator(directory, vmem) ==
    [function_directory     |-> directory,
     context                |-> IntermediateCodeContext,
     virtual_memory         |-> vmem,
     current_function_name  |-> NoName,
     function_start_indices |-> EmptyDict,
     pending_return_gotos   |-> EmptyDict,
     pending_gosub_fixups   |-> EmptyDict,
     error                  |-> "none",
     result                 |-> << >>,
     arguments              |-> << >>,
     patches                |-> << >>,
     marks                  |-> << >>]

ExpressionResult(address, type) == [address |-> address, result_type |-> type]

\* raise: the exception leaves every caller up to generate_program
Fail(gen, exception) == [gen EXCEPT !.error = exception]

Returns(gen, expression_result) == [gen EXCEPT !.result = expression_result]

\* len(self.context.quadruples)
QueueLen(gen) == Len(gen.context.quadruples)

\* QuadrupleQueue.enqueue; the index it returns is QueueLen(gen) before
enqueue(gen, quad) == [gen EXCEPT !.context.quadruples = Append(@, quad)]

\* The entry of patches an update_result call leaves: the index patched,
\* the quadruple found there, the result it held and the one it got, the
\* length of the queue and the function being generated at the call.
Patch(gen, index, new_result) ==
    [index   |-> index,
     quad    |-> gen.context.quadruples[index + 1],
     old     |-> gen.context.quadruples[index + 1].result,
     new     |-> new_result,
     length  |-> QueueLen(gen),
     current |-> gen.current_function_name]

\* update_result storing the index after the one it is given.
update_result_one_past(gen, index, new_result) ==
    [gen EXCEPT !.context.quadruples[index + 1].result = new_result + 1,
                !.patches = Append(@, Patch(gen, index, new_result + 1))]

\* QuadrupleQueue.update_result
update_result(gen, index, new_result) ==
    [gen EXCEPT !.context.quadruples[index + 1].result = new_result,
                !.patches = Append(@, Patch(gen, index, new_result))]

\* update_results patching every quadruple of the list a second time.
RECURSIVE update_results_twice(_, _, _)
update_results_twice(gen, indices, new_result) ==
    IF indices = << >> THEN gen
    ELSE update_results_twice(
             update_result(update_result(gen, Head(indices), new_result),
                           Head(indices), new_result),
             Tail(indices), new_result)

\* update_results leaving every quadruple of the list as it is.
update_results_skipped(gen, indices, new_result) == gen

\* update_result(index, new_result) for every index of the list, in order
RECURSIVE update_results(_, _, _)
update_results(gen, indices, new_result) ==
    IF indices = << >> THEN gen
    ELSE update_results(update_result(gen, Head(indices), new_result),
                        Tail(indices), new_result)

\* self.virtual_memory.allocate_temporary(type): the generator with the
\* counter advanced and the address in result
AllocateTemporary(gen, type) ==
    LET got == allocate_temporary(gen.virtual_memory, type)
    IN  [gen EXCEPT !.virtual_memory = got.virtual_memory,
                    !.result = ExpressionResult(got.address, type)]

\* self.virtual_memory.allocate_constant(literal_value, type), likewise
AllocateConstant(gen, literal_value, type) ==
    LET got == allocate_constant(gen.virtual_memory, literal_value, type)
    IN  [gen EXCEPT !.virtual_memory = got.virtual_memory,
                    !.result = ExpressionResult(got.address, type)]

emit_binary_operation(gen, operator_name, left, right) ==
    LET result_t == result_type(operator_name, left.result_type, right.result_type)
    IN  IF ~result_t.ok THEN Fail(gen, "InvalidTypeError")
        ELSE LET allocated == AllocateTemporary(gen, result_t.type)
                 temp_address == allocated.result.address
                 emitted == enqueue(allocated,
                                    Quadruple(operator_name, left.address,
                                              right.address, temp_address))
             IN  [emitted EXCEPT !.context.operand_stack = Append(@, temp_address),
                                 !.context.type_stack = Append(@, result_t.type)]

-----------------------------------------------------------------------------
(* expression_to_quads.py: expressions.  Every operator takes the          *)
(* generator and a tree and yields the generator after the call: its       *)
(* error field names the exception that left the call, its result field    *)
(* holds the ExpressionResult returned.                                    *)

\* self._generate_<rule>(tree), defined below the methods it dispatches to
RECURSIVE Generate(_, _, _)
RECURSIVE generate_args_from(_, _, _)
RECURSIVE generate_chain(_, _, _, _)

generate_constante(gen, constante_tree) ==
    LET token == constante_tree.children[1]
    IN  IF token.kind # "Token" THEN Fail(gen, "ValueError")
        ELSE IF token.type = "CTE_INT" THEN AllocateConstant(gen, token.value, INT)
        ELSE IF token.type = "CTE_FLOAT" THEN AllocateConstant(gen, token.value, FLOAT)
        ELSE Fail(gen, "ValueError")

\* _generate_args: the loop from children[index] on (expr, COMA, expr, ...),
\* the results gathered in the arguments field
generate_args_from(gen, children, index) ==
    IF index > Len(children) THEN [gen EXCEPT !.arguments = << >>]
    ELSE IF ~IsTree(children[index], "expresion") THEN Fail(gen, "ValueError")
    ELSE LET generated == Generate(gen, "expresion", children[index])
         IN  IF generated.error # "none" THEN generated
             ELSE LET rest == generate_args_from(generated, children, index + 2)
                  IN  IF rest.error # "none" THEN rest
                      ELSE [rest EXCEPT !.arguments = << generated.result >> \o @]

generate_args(gen, args_tree) == generate_args_from(gen, args_tree.children, 1)

\* The entry of marks a call that raises leaves: the queue length when the
\* call was entered, the queue length once its arguments were lowered and
\* the exception.
FailCall(entered, lowered, function_name, exception) ==
    [Fail(lowered, exception) EXCEPT !.marks =
        Append(@, [kind |-> "failed call", function_name |-> function_name,
                   start |-> QueueLen(entered), args_end |-> QueueLen(lowered),
                   exception |-> exception])]

\* A _prepare_function_call that appends the ERA before it checks the
\* arguments.
prepare_function_call_era_first(gen, function_name, args_tree) ==
    IF ~HasFunction(gen.function_directory, function_name)
      THEN FailCall(gen, gen, function_name, "UnknownFunctionError")
      ELSE
        LET parameter_list == get_function(gen.function_directory,
                                           function_name).parameter_list
            generated == IF args_tree = << >> \/ args_tree[1].kind # "Tree"
                           THEN [gen EXCEPT !.arguments = << >>]
                           ELSE generate_args(gen, args_tree[1])
            argument_results == generated.arguments
            era == Quadruple("ERA", function_name, None, None)
        IN  IF generated.error # "none" THEN generated
            ELSE IF Len(parameter_list) # Len(argument_results)
              THEN [FailCall(gen, generated, function_name, "SemanticError")
                      EXCEPT !.context.quadruples = Append(@, era)]
            ELSE IF \E position \in 1..Len(parameter_list) :
                       ~assert_assign(parameter_list[position].var_type,
                                      argument_results[position].result_type)
              THEN [FailCall(gen, generated, function_name, "InvalidTypeError")
                      EXCEPT !.context.quadruples = Append(@, era)]
            ELSE generated

\* _prepare_function_call; args_tree is << >> for None.  On return the
\* arguments field holds argument_results (function_info is the directory's
\* entry of function_name).
prepare_function_call(gen, function_name, args_tree) ==
    IF ~HasFunction(gen.function_directory, function_name)
      THEN FailCall(gen, gen, function_name, "UnknownFunctionError")
      ELSE
        LET parameter_list == get_function(gen.function_directory,
                                           function_name).parameter_list
            generated == IF args_tree = << >> \/ args_tree[1].kind # "Tree"
                           THEN [gen EXCEPT !.arguments = << >>]
                           ELSE generate_args(gen, args_tree[1])
            argument_results == generated.arguments
        IN  IF generated.error # "none" THEN generated
            ELSE IF Len(parameter_list) # Len(argument_results)
              THEN FailCall(gen, generated, function_name, "SemanticError")
            ELSE IF \E position \in 1..Len(parameter_list) :
                       ~assert_assign(parameter_list[position].var_type,
                                      argument_results[position].result_type)
              THEN FailCall(gen, generated, function_name, "InvalidTypeError")
            ELSE generated

\* _emit_function_activation: ERA, one PARAM per argument, GOSUB
\* _emit_function_activation numbering the PARAM quadruples from zero.
emit_function_activation_zero_based(gen, function_info, argument_results) ==
    LET function_name == function_info.name
        era == enqueue(gen, Quadruple("ERA", function_name, None, None))
        params == [era EXCEPT !.context.quadruples = @ \o
                      [position \in 1..Len(argument_results) |->
                          Quadruple("PARAM", argument_results[position].address,
                                    None, position - 1)]]
        start_index == DictGet(gen.function_start_indices, function_name, None)
        gosub_index == QueueLen(params)
        gosub == enqueue(params, Quadruple("GOSUB", function_name, None, start_index))
    IN  IF start_index = None
          THEN [gosub EXCEPT !.pending_gosub_fixups =
                   DictSet(@, function_name,
                           Append(DictGet(@, function_name, << >>), gosub_index))]
          ELSE gosub

emit_function_activation(gen, function_info, argument_results) ==
    LET function_name == function_info.name
        era == enqueue(gen, Quadruple("ERA", function_name, None, None))
        params == [era EXCEPT !.context.quadruples = @ \o
                      [position \in 1..Len(argument_results) |->
                          Quadruple("PARAM", argument_results[position].address,
                                    None, position)]]
        start_index == DictGet(gen.function_start_indices, function_name, None)
        gosub_index == QueueLen(params)
        gosub == enqueue(params, Quadruple("GOSUB", function_name, None, start_index))
    IN  IF start_index = None
          THEN [gosub EXCEPT !.pending_gosub_fixups =
                   DictSet(@, function_name,
                           Append(DictGet(@, function_name, << >>), gosub_index))]
          ELSE gosub

\* The entry of marks a call in an expression leaves: the index of its
\* GOSUB and the ExpressionResult it returned.
MarkCall(gen, function_name, gosub_index) ==
    [gen EXCEPT !.marks =
        Append(@, [kind |-> "call", function_name |-> function_name,
                   gosub_index |-> gosub_index, returned |-> gen.result])]

\* A call in an expression whose result is the return slot itself.
generate_function_call_expression_no_copy(gen, function_name, args_tree) ==
    LET prepared == prepare_function_call(gen, function_name, args_tree)
        function_info == get_function(gen.function_directory, function_name)
    IN  IF prepared.error # "none" THEN prepared
        ELSE IF function_info.return_type = VOID
          THEN FailCall(gen, prepared, function_name, "SemanticError")
        ELSE LET activated == emit_function_activation(prepared, function_info,
                                                       prepared.arguments)
             IN  IF ~HasReturnAddress(activated.virtual_memory, function_name)
                   THEN Fail(activated, "KeyError")
                   ELSE LET ret_address == get_function_return_address(
                                               activated.virtual_memory, function_name)
                        IN  MarkCall(Returns(activated,
                                             ExpressionResult(ret_address,
                                                 function_info.return_type)),
                                     function_name, QueueLen(activated) - 1)

generate_function_call_expression(gen, function_name, args_tree) ==
    LET prepared == prepare_function_call(gen, function_name, args_tree)
        function_info == get_function(gen.function_directory, function_name)
    IN  IF prepared.error # "none" THEN prepared
        ELSE IF function_info.return_type = VOID
          THEN FailCall(gen, prepared, function_name, "SemanticError")
        ELSE LET activated == emit_function_activation(prepared, function_info,
                                                       prepared.arguments)
             IN  IF ~HasReturnAddress(activated.virtual_memory, function_name)
                   THEN Fail(activated, "KeyError")
                   ELSE LET ret_address == get_function_return_address(
                                               activated.virtual_memory, function_name)
                            allocated == AllocateTemporary(activated,
                                                           function_info.return_type)
                        IN  MarkCall(enqueue(allocated,
                                             Quadruple("ASSIGN", ret_address, None,
                                                       allocated.result.address)),
                                     function_name, QueueLen(activated) - 1)

generate_primario(gen, primario_tree) ==
    LET children == primario_tree.children
        child == children[1]
    IN  IF IsToken(child, "PAREN_IZQ") THEN Generate(gen, "expresion", children[2])
        ELSE IF IsTree(child, "constante") THEN generate_constante(gen, child)
        ELSE IF IsToken(child, "ID")
          THEN IF Len(children) >= 2 /\ IsTree(children[2], "sufijo_llamada")
                 THEN LET args == Trees(children[2].children, "args")
                      IN  generate_function_call_expression(
                              gen, child.value,
                              IF args = << >> THEN << >> ELSE << args[1] >>)
                 ELSE LET found == lookup_variable(gen.function_directory, child.value,
                                                   gen.current_function_name)
                      IN  IF ~found.ok THEN Fail(gen, found.error)
                          ELSE IF found.info.virtual_address = None
                            THEN Fail(gen, "SemanticError")
                          ELSE Returns(gen, ExpressionResult(found.info.virtual_address,
                                                             found.info.var_type))
        ELSE Fail(gen, "ValueError")

generate_factor(gen, factor_tree) ==
    LET children == factor_tree.children
    IN  CASE Len(children) = 1 ->
               IF IsTree(children[1], "primario")
                 THEN Generate(gen, "primario", children[1])
               ELSE IF IsTree(children[1], "expresion")
                 THEN Generate(gen, "expresion", children[1])
               ELSE Fail(gen, "ValueError")
          [] Len(children) = 2 ->
               LET signo_tree == children[1]
                   primario == Generate(gen, "primario", children[2])
                   signed == signo_tree.kind = "Tree" /\ signo_tree.children # << >>
               IN  IF primario.error # "none" THEN primario
                   ELSE IF ~signed \/ signo_tree.children[1].type = "MAS" THEN primario
                   ELSE IF signo_tree.children[1].type = "MENOS"
                     THEN LET allocated == AllocateTemporary(primario,
                                                             primario.result.result_type)
                          IN  enqueue(allocated,
                                      Quadruple("UMINUS", primario.result.address, None,
                                                allocated.result.address))
                   ELSE Fail(primario, "ValueError")
          [] Len(children) = 3 ->
               IF IsToken(children[1], "PAREN_IZQ") /\ IsToken(children[3], "PAREN_DER")
                 THEN Generate(gen, "expresion", children[2])
                 ELSE Fail(gen, "ValueError")
          [] OTHER -> Fail(gen, "ValueError")

\* The loop of _generate_exp_simple (operand "termino") and of
\* _generate_termino (operand "factor") from children[index] on; current is
\* the generator with current_result in its result field.
generate_chain(current, children, index, operand) ==
    IF current.error # "none" \/ index > Len(children) THEN current
    ELSE LET right == IF operand = "termino"
                        THEN Generate(current, "termino", children[index + 1])
                        ELSE Generate(current, "factor", children[index + 1])
         IN  IF right.error # "none" THEN right
             ELSE generate_chain(
                      emit_binary_operation(right, children[index].type,
                                            current.result, right.result),
                      children, index + 2, operand)

generate_termino(gen, termino_tree) ==
    generate_chain(Generate(gen, "factor", termino_tree.children[1]),
                   termino_tree.children, 2, "factor")

generate_exp_simple(gen, exp_simple_tree) ==
    generate_chain(Generate(gen, "termino", exp_simple_tree.children[1]),
                   exp_simple_tree.children, 2, "termino")

generate_expresion(gen, expresion_tree) ==
    LET children == expresion_tree.children
        left == Generate(gen, "exp_simple", children[1])
    IN  IF left.error # "none" \/ Len(children) = 1 THEN left
        ELSE IF children[2].kind # "Tree" \/ children[2].children = << >> THEN left
        ELSE LET operator_token == children[2].children[1]
                 right == Generate(left, "exp_simple", children[2].children[2])
             IN  IF right.error # "none" THEN right
                 ELSE LET comparison == emit_binary_operation(
                                            right, operator_token.type,
                                            left.result, right.result)
                      IN  IF comparison.error # "none" THEN comparison
                          ELSE IF ~ensure_bool(comparison.result.result_type)
                            THEN Fail(comparison, "InvalidTypeError")
                          ELSE comparison

-----------------------------------------------------------------------------
(* expression_to_quads.py: statements *)

RECURSIVE generate_each(_, _, _, _)
RECURSIVE generate_imprime_from(_, _, _)

\* generate_asignacion as it would be if the ASSIGN had its operands the
\* other way round: the variable as source, the expression as target.
generate_asignacion_reversed(gen, asignacion_tree) ==
    LET children == asignacion_tree.children
        variable_token == children[1]
        found == lookup_variable(gen.function_directory, variable_token.value,
                                 gen.current_function_name)
        expresiones == Trees(children, "expresion")
    IN  IF ~IsToken(variable_token, "ID") THEN Fail(gen, "ValueError")
        ELSE IF ~found.ok THEN Fail(gen, found.error)
        ELSE IF expresiones = << >> THEN Fail(gen, "ValueError")
        ELSE LET generated == Generate(gen, "expresion", expresiones[1])
             IN  IF generated.error # "none" THEN generated
                 ELSE IF ~assert_assign(found.info.var_type, generated.result.result_type)
                   THEN Fail(generated, "InvalidTypeError")
                 ELSE IF found.info.virtual_address = None
                   THEN Fail(generated, "SemanticError")
                 ELSE enqueue(generated,
                              Quadruple("ASSIGN", found.info.virtual_address, None,
                                        generated.result.address))

generate_asignacion(gen, asignacion_tree) ==
    LET children == asignacion_tree.children
        variable_token == children[1]
        found == lookup_variable(gen.function_directory, variable_token.value,
                                 gen.current_function_name)
        expresiones == Trees(children, "expresion")
    IN  IF ~IsToken(variable_token, "ID") THEN Fail(gen, "ValueError")
        ELSE IF ~found.ok THEN Fail(gen, found.error)
        ELSE IF expresiones = << >> THEN Fail(gen, "ValueError")
        ELSE LET generated == Generate(gen, "expresion", expresiones[1])
             IN  IF generated.error # "none" THEN generated
                 ELSE IF ~assert_assign(found.info.var_type, generated.result.result_type)
                   THEN Fail(generated, "InvalidTypeError")
                 ELSE IF found.info.virtual_address = None
                   THEN Fail(generated, "SemanticError")
                 ELSE enqueue(generated,
                              Quadruple("ASSIGN", generated.result.address, None,
                                        found.info.virtual_address))

\* self.virtual_memory.allocate_constant(token.value, "STRING") and the
\* PRINT of its address
PrintString(gen, string_token) ==
    LET allocated == AllocateConstant(gen, string_token.value, STR)
    IN  enqueue(allocated, Quadruple("PRINT", allocated.result.address, None, None))

\* The loop of _generate_imprime over the children of args_imprime
generate_imprime_from(gen, children, index) ==
    IF gen.error # "none" \/ index > Len(children) THEN gen
    ELSE LET child == children[index]
             generated == Generate(gen, "expresion", child)
             printed ==
                 IF IsTree(child, "expresion")
                   THEN IF generated.error # "none" THEN generated
                        ELSE enqueue(generated,
                                     Quadruple("PRINT", generated.result.address,
                                               None, None))
                 ELSE IF IsToken(child, "CTE_STRING") THEN PrintString(gen, child)
                 ELSE gen
         IN  generate_imprime_from(printed, children, index + 1)

generate_imprime(gen, imprime_tree) ==
    LET found == Trees(imprime_tree.children, "args_imprime")
    IN  IF found = << >> THEN Fail(gen, "ValueError")
        ELSE IF Len(found[1].children) = 1 /\ IsToken(found[1].children[1], "CTE_STRING")
          THEN PrintString(gen, found[1].children[1])
        ELSE generate_imprime_from(gen, found[1].children, 1)

generate_llamada_func(gen, llamada_func_tree) ==
    LET names == Tokens(llamada_func_tree.children, "ID")
        args == Trees(llamada_func_tree.children, "args")
    IN  IF names = << >> THEN Fail(gen, "ValueError")
        ELSE LET function_name == Last(names).value
                 prepared == prepare_function_call(
                                 gen, function_name,
                                 IF args = << >> THEN << >> ELSE << Last(args) >>)
             IN  IF prepared.error # "none" THEN prepared
                 ELSE emit_function_activation(
                          prepared, get_function(gen.function_directory, function_name),
                          prepared.arguments)

\* The entry of marks a return statement leaves: the function it is in
\* (NoName in the main body), the type of its expression (NoName without
\* one), the queue length once the expression was lowered and whether the
\* return was accepted.
MarkReturn(gen, lowered, expr_type, accepted) ==
    [gen EXCEPT !.marks =
        Append(@, [kind |-> "return",
                   function_name |-> lowered.current_function_name,
                   expr_type |-> expr_type, expr_end |-> QueueLen(lowered),
                   accepted |-> accepted])]

\* _generate_retorno emitting the exit GOTO before the ASSIGN to the return
\* slot.
generate_retorno_jump_first(gen, retorno_tree) ==
    IF gen.current_function_name = NoName THEN Fail(gen, "SemanticError")
    ELSE
      LET expresiones == Trees(retorno_tree.children, "expresion")
          generated == IF expresiones = << >> THEN gen
                       ELSE Generate(gen, "expresion", expresiones[1])
          expr_type == IF expresiones = << >> THEN NoName
                       ELSE generated.result.result_type
          function_info == get_function(gen.function_directory,
                                        gen.current_function_name)
          checked == assert_return(gen.function_directory,
                                   gen.current_function_name, expr_type)
          jumped == enqueue(generated, Quadruple("GOTO", None, None, None))
          stored ==
              IF function_info.return_type # VOID
                THEN enqueue(jumped,
                             Quadruple("ASSIGN", generated.result.address, None,
                                       get_function_return_address(
                                           generated.virtual_memory,
                                           function_info.name)))
                ELSE jumped
      IN  IF generated.error # "none" THEN generated
          ELSE IF checked # "none" THEN Fail(generated, checked)
          ELSE [stored EXCEPT !.pending_return_gotos =
                   DictSet(@, gen.current_function_name,
                           Append(DictGet(@, gen.current_function_name, << >>),
                                  QueueLen(generated)))]

\* A return that is lowered whatever assert_return answers.
generate_retorno_unchecked(gen, retorno_tree) ==
    IF gen.current_function_name = NoName
      THEN MarkReturn(Fail(gen, "SemanticError"), gen, NoName, FALSE)
    ELSE
      LET expresiones == Trees(retorno_tree.children, "expresion")
          generated == IF expresiones = << >> THEN gen
                       ELSE Generate(gen, "expresion", expresiones[1])
          expr_type == IF expresiones = << >> THEN NoName
                       ELSE generated.result.result_type
      IN  IF generated.error # "none" THEN generated
          ELSE
            LET function_info == get_function(gen.function_directory,
                                              gen.current_function_name)
                typed == function_info.return_type # VOID /\ expresiones # << >>
                goto_index == QueueLen(generated) + IF typed THEN 1 ELSE 0
                stored ==
                    IF typed
                      THEN enqueue(generated,
                                   Quadruple("ASSIGN", generated.result.address, None,
                                             get_function_return_address(
                                                 generated.virtual_memory,
                                                 function_info.name)))
                      ELSE generated
                jumped == enqueue(stored, Quadruple("GOTO", None, None, None))
            IN  MarkReturn(
                    [jumped EXCEPT !.pending_return_gotos =
                        DictSet(@, gen.current_function_name,
                                Append(DictGet(@, gen.current_function_name, << >>),
                                       goto_index))],
                    generated, expr_type, TRUE)

\* _generate_retorno once the current function is known to be set
generate_retorno_in_function(gen, retorno_tree) ==
    LET expresiones == Trees(retorno_tree.children, "expresion")
        generated == IF expresiones = << >> THEN gen
                     ELSE Generate(gen, "expresion", expresiones[1])
        expr_type == IF expresiones = << >> THEN NoName
                     ELSE generated.result.result_type
    IN  IF generated.error # "none" THEN generated
        ELSE IF ~HasFunction(gen.function_directory, gen.current_function_name)
          THEN Fail(generated, "UnknownFunctionError")
        ELSE
          LET checked == assert_return(gen.function_directory,
                                       gen.current_function_name, expr_type)
              function_info == get_function(gen.function_directory,
                                            gen.current_function_name)
              goto_index == QueueLen(generated)
                           + IF function_info.return_type # VOID THEN 1 ELSE 0
              stored ==
                  IF function_info.return_type # VOID
                    THEN enqueue(generated,
                                 Quadruple("ASSIGN", generated.result.address, None,
                                           get_function_return_address(
                                               generated.virtual_memory,
                                               function_info.name)))
                    ELSE generated
              jumped == enqueue(stored, Quadruple("GOTO", None, None, None))
          IN  IF checked # "none"
                THEN MarkReturn(Fail(generated, checked), generated, expr_type, FALSE)
              ELSE IF function_info.return_type # VOID /\ expresiones = << >>
                THEN Fail(generated, "SemanticError")
              ELSE IF function_info.return_type # VOID
                      /\ ~HasReturnAddress(generated.virtual_memory, function_info.name)
                THEN Fail(generated, "KeyError")
              ELSE MarkReturn(
                       [jumped EXCEPT !.pending_return_gotos =
                           DictSet(@, gen.current_function_name,
                                   Append(DictGet(@, gen.current_function_name, << >>),
                                          goto_index))],
                       generated, expr_type, TRUE)

\* A return that appends its exit GOTO before it looks at the current
\* function.
generate_retorno_checks_last(gen, retorno_tree) ==
    IF gen.current_function_name = NoName
      THEN MarkReturn(Fail(enqueue(gen, Quadruple("GOTO", None, None, None)),
                           "SemanticError"),
                      gen, NoName, FALSE)
      ELSE generate_retorno_in_function(gen, retorno_tree)

generate_retorno(gen, retorno_tree) ==
    IF gen.current_function_name = NoName
      THEN MarkReturn(Fail(gen, "SemanticError"), gen, NoName, FALSE)
      ELSE generate_retorno_in_function(gen, retorno_tree)

\* _generate_cuerpo, and the identical loops of _generate_bloque_anidado and
\* _generate_cuerpo_principal
generate_cuerpo(gen, cuerpo_tree) ==
    generate_each(gen, cuerpo_tree.children, 1, {"estatutos"})

\* The entry of marks an if or a while leaves once it is lowered: the queue
\* length before its condition (start), the index of its GOTOF, the queue
\* length after its first block (block_end) and, for an if with an else,
\* after the else block (else_end).
Mark(gen, kind, start, gotof_index, block_end, has_else, else_end) ==
    [gen EXCEPT !.marks =
        Append(@, [kind |-> kind, start |-> start, gotof_index |-> gotof_index,
                   block_end |-> block_end, has_else |-> has_else,
                   else_end |-> else_end])]

\* An if whose GOTOF is patched before the skipping GOTO is appended.
generate_condicion_else_at_goto(gen, condicion_tree) ==
    LET expresiones == Trees(condicion_tree.children, "expresion")
        cuerpo_nodes == Trees(condicion_tree.children, "cuerpo")
    IN  IF expresiones = << >> \/ cuerpo_nodes = << >> THEN Fail(gen, "ValueError")
        ELSE
          LET condicion == Generate(gen, "expresion", Last(expresiones))
              gotof_index == QueueLen(condicion)
              gotof == enqueue(condicion,
                               Quadruple("GOTOF", condicion.result.address, None, None))
              then_done == Generate(gotof, "cuerpo", cuerpo_nodes[1])
              goto_end_index == QueueLen(then_done)
              else_start == update_result(then_done, gotof_index, QueueLen(then_done))
              goto_end == enqueue(else_start, Quadruple("GOTO", None, None, None))
              else_done == Generate(goto_end, "cuerpo", cuerpo_nodes[2])
          IN  IF condicion.error # "none" THEN condicion
              ELSE IF ~ensure_bool(condicion.result.result_type)
                THEN Fail(condicion, "InvalidTypeError")
              ELSE IF then_done.error # "none" THEN then_done
              ELSE IF Len(cuerpo_nodes) > 1
                THEN IF else_done.error # "none" THEN else_done
                     ELSE Mark(update_result(else_done, goto_end_index,
                                             QueueLen(else_done)),
                               "condicion", QueueLen(gen), gotof_index,
                               QueueLen(then_done), TRUE, QueueLen(else_done))
                ELSE Mark(update_result(then_done, gotof_index, QueueLen(then_done)),
                          "condicion", QueueLen(gen), gotof_index,
                          QueueLen(then_done), FALSE, None)

generate_condicion(gen, condicion_tree) ==
    LET expresiones == Trees(condicion_tree.children, "expresion")
        cuerpo_nodes == Trees(condicion_tree.children, "cuerpo")
    IN  IF expresiones = << >> \/ cuerpo_nodes = << >> THEN Fail(gen, "ValueError")
        ELSE
          LET condicion == Generate(gen, "expresion", Last(expresiones))
              gotof_index == QueueLen(condicion)
              gotof == enqueue(condicion,
                               Quadruple("GOTOF", condicion.result.address, None, None))
              then_done == Generate(gotof, "cuerpo", cuerpo_nodes[1])
              goto_end_index == QueueLen(then_done)
              goto_end == enqueue(then_done, Quadruple("GOTO", None, None, None))
              else_start == update_result(goto_end, gotof_index, QueueLen(goto_end))
              else_done == Generate(else_start, "cuerpo", cuerpo_nodes[2])
          IN  IF condicion.error # "none" THEN condicion
              ELSE IF ~ensure_bool(condicion.result.result_type)
                THEN Fail(condicion, "InvalidTypeError")
              ELSE IF then_done.error # "none" THEN then_done
              ELSE IF Len(cuerpo_nodes) > 1
                THEN IF else_done.error # "none" THEN else_done
                     ELSE Mark(update_result(else_done, goto_end_index,
                                             QueueLen(else_done)),
                               "condicion", QueueLen(gen), gotof_index,
                               QueueLen(then_done), TRUE, QueueLen(else_done))
                ELSE Mark(update_result(then_done, gotof_index, QueueLen(then_done)),
                          "condicion", QueueLen(gen), gotof_index,
                          QueueLen(then_done), FALSE, None)

\* A while whose closing GOTO returns to its GOTOF, past the condition.
generate_ciclo_back_to_gotof(gen, ciclo_tree) ==
    LET loop_start_index == QueueLen(gen)
        expresiones == Trees(ciclo_tree.children, "expresion")
        cuerpos == Trees(ciclo_tree.children, "cuerpo")
    IN  IF expresiones = << >> \/ cuerpos = << >> THEN Fail(gen, "ValueError")
        ELSE
          LET condicion == Generate(gen, "expresion", Last(expresiones))
              gotof_index == QueueLen(condicion)
              gotof == enqueue(condicion,
                               Quadruple("GOTOF", condicion.result.address, None, None))
              body == Generate(gotof, "cuerpo", Last(cuerpos))
              back == enqueue(body, Quadruple("GOTO", None, None, gotof_index))
          IN  IF condicion.error # "none" THEN condicion
              ELSE IF ~ensure_bool(condicion.result.result_type)
                THEN Fail(condicion, "InvalidTypeError")
              ELSE IF body.error # "none" THEN body
              ELSE Mark(update_result(back, gotof_index, QueueLen(back)),
                        "ciclo", loop_start_index, gotof_index, QueueLen(body),
                        FALSE, None)

generate_ciclo(gen, ciclo_tree) ==
    LET loop_start_index == QueueLen(gen)
        expresiones == Trees(ciclo_tree.children, "expresion")
        cuerpos == Trees(ciclo_tree.children, "cuerpo")
    IN  IF expresiones = << >> \/ cuerpos = << >> THEN Fail(gen, "ValueError")
        ELSE
          LET condicion == Generate(gen, "expresion", Last(expresiones))
              gotof_index == QueueLen(condicion)
              gotof == enqueue(condicion,
                               Quadruple("GOTOF", condicion.result.address, None, None))
              body == Generate(gotof, "cuerpo", Last(cuerpos))
              back == enqueue(body, Quadruple("GOTO", None, None, loop_start_index))
          IN  IF condicion.error # "none" THEN condicion
              ELSE IF ~ensure_bool(condicion.result.result_type)
                THEN Fail(condicion, "InvalidTypeError")
              ELSE IF body.error # "none" THEN body
              ELSE Mark(update_result(back, gotof_index, QueueLen(back)),
                        "ciclo", loop_start_index, gotof_index, QueueLen(body),
                        FALSE, None)

generate_estatuto(gen, estatuto_tree) ==
    generate_each(gen, estatuto_tree.children, 1,
                  {"asignacion", "condicion", "ciclo", "llamada_func", "imprime",
                   "retorno", "bloque_anidado"})

generate_estatutos(gen, estatutos_tree) ==
    generate_each(gen, estatutos_tree.children, 1, {"estatuto"})

\* _generate_function patching the pending GOSUBs of the function after its
\* ENDFUNC instead of after its BEGINFUNC.
generate_function_patching_last(gen, func_decl_tree) ==
    LET names == Tokens(func_decl_tree.children, "ID")
        estatutos == Trees(func_decl_tree.children, "estatutos")
    IN  IF names = << >> \/ estatutos = << >> THEN Fail(gen, "ValueError")
        ELSE
          LET function_name == names[1].value
              begin_index == QueueLen(gen)
              begun == enqueue(
                  [gen EXCEPT !.current_function_name = function_name,
                              !.pending_return_gotos = DictSet(@, function_name, << >>),
                              !.function_start_indices =
                                  DictSet(@, function_name, begin_index + 1)],
                  Quadruple("BEGINFUNC", function_name, None, None))
              body == Generate(begun, "estatutos", estatutos[1])
              end_index == QueueLen(body)
              ended == enqueue(body, Quadruple("ENDFUNC", function_name, None, None))
              returns == update_results(
                             ended, DictGet(body.pending_return_gotos, function_name, << >>),
                             end_index)
              patched == update_results(
                             returns, DictGet(gen.pending_gosub_fixups, function_name, << >>),
                             begin_index + 1)
          IN  IF body.error # "none" THEN body
              ELSE [patched EXCEPT !.current_function_name = gen.current_function_name,
                                   !.pending_gosub_fixups =
                                       DictSet(@, function_name, << >>)]

generate_function(gen, func_decl_tree) ==
    LET names == Tokens(func_decl_tree.children, "ID")
        estatutos == Trees(func_decl_tree.children, "estatutos")
    IN  IF names = << >> \/ estatutos = << >> THEN Fail(gen, "ValueError")
        ELSE
          LET function_name == names[1].value
              begin_index == QueueLen(gen)
              begun == enqueue(
                  [gen EXCEPT !.current_function_name = function_name,
                              !.pending_return_gotos = DictSet(@, function_name, << >>),
                              !.function_start_indices =
                                  DictSet(@, function_name, begin_index + 1)],
                  Quadruple("BEGINFUNC", function_name, None, None))
              patched == update_results(
                             begun, DictGet(gen.pending_gosub_fixups, function_name, << >>),
                             begin_index + 1)
              body == Generate(
                          [patched EXCEPT !.pending_gosub_fixups =
                                              DictSet(@, function_name, << >>)],
                          "estatutos", estatutos[1])
              end_index == QueueLen(body)
              ended == enqueue(body, Quadruple("ENDFUNC", function_name, None, None))
              returns == update_results(
                             ended, DictGet(body.pending_return_gotos, function_name, << >>),
                             end_index)
          IN  IF body.error # "none" THEN body
              ELSE [returns EXCEPT !.current_function_name = gen.current_function_name]

\* "for child in children: if isinstance(child, Tree) and child.data == ...:
\* self._generate_...(child)", the loop of _generate_funcs_seccion,
\* _generate_cuerpo, _generate_estatutos, _generate_estatuto and of
\* generate_program, from children[index] on; wanted holds the rule names
\* the loop acts on.
generate_each(gen, children, index, wanted) ==
    IF gen.error # "none" \/ index > Len(children) THEN gen
    ELSE
      LET child == children[index]
      IN  generate_each(IF child.kind = "Tree" /\ child.data \in wanted
                          THEN Generate(gen, child.data, child) ELSE gen,
                        children, index + 1, wanted)

\* _generate_funcs_seccion
generate_funcs_seccion(gen, funcs_seccion_tree) ==
    generate_each(gen, funcs_seccion_tree.children, 1, {"func_decl"})

Generate(gen, rule, tree) ==
    CASE rule = "expresion"        -> generate_expresion(gen, tree)
      [] rule = "exp_simple"       -> generate_exp_simple(gen, tree)
      [] rule = "termino"          -> generate_termino(gen, tree)
      [] rule = "factor"           -> generate_factor(gen, tree)
      [] rule = "primario"         -> generate_primario(gen, tree)
      [] rule = "funcs_seccion"    -> generate_funcs_seccion(gen, tree)
      [] rule = "func_decl"        -> generate_function(gen, tree)
      [] rule = "cuerpo_principal" ->
             generate_cuerpo([gen EXCEPT !.current_function_name = NoName], tree)
      [] rule = "cuerpo"           -> generate_cuerpo(gen, tree)
      [] rule = "bloque_anidado"   -> generate_cuerpo(gen, tree)
      [] rule = "estatutos"        -> generate_estatutos(gen, tree)
      [] rule = "estatuto"         -> generate_estatuto(gen, tree)
      [] rule = "asignacion"       -> generate_asignacion(gen, tree)
      [] rule = "condicion"        -> generate_condicion(gen, tree)
      [] rule = "ciclo"            -> generate_ciclo(gen, tree)
      [] rule = "llamada_func"     -> generate_llamada_func(gen, tree)
      [] rule = "imprime"          -> generate_imprime(gen, tree)
      [] rule = "retorno"          -> generate_retorno(gen, tree)

generate_program(gen, tree) ==
    LET programa == IF IsTree(tree, "start") THEN tree.children[1] ELSE tree
    IN  IF ~IsTree(programa, "programa") THEN Fail(gen, "ValueError")
        ELSE generate_each(generate_each(gen, programa.children, 1, {"funcs_seccion"}),
                           programa.children, 1, {"cuerpo_principal"})

-----------------------------------------------------------------------------
(* Parse trees, built as the grammar quoted in the docstrings of           *)
(* expression_to_quads.py shapes them.                                     *)

\* primario: ID
Id(name) == Tree("primario", << Token("ID", name) >>)

\* primario: constante, of token type CTE_INT or CTE_FLOAT
Cte(type, value) == Tree("primario", << Tree("constante", << Token(type, value) >>) >>)

\* expr (COMA expr)*
Separated(expresiones) ==
    [i \in 1..(2 * Len(expresiones) - 1) |->
        IF i % 2 = 1 THEN expresiones[(i + 1) \div 2] ELSE Token("COMA", ",")]

\* PAREN_IZQ args? PAREN_DER
Parenthesized(expresiones) ==
    << Token("PAREN_IZQ", "(") >>
    \o (IF expresiones = << >> THEN << >>
        ELSE << Tree("args", Separated(expresiones)) >>)
    \o << Token("PAREN_DER", ")") >>

\* primario: ID sufijo_llamada
Call(name, expresiones) ==
    Tree("primario", << Token("ID", name),
                        Tree("sufijo_llamada", Parenthesized(expresiones)) >>)

\* exp_simple: termino, of one factor without sign
ExpSimple(primario) ==
    Tree("exp_simple", << Tree("termino", << Tree("factor", << primario >>) >>) >>)

\* expresion: exp_simple
Expresion(primario) == Tree("expresion", << ExpSimple(primario) >>)

\* expresion: exp_simple cola_relacional
Relation(operator, left, right) ==
    Tree("expresion", << ExpSimple(left),
                         Tree("cola_relacional",
                              << Token(operator, operator), ExpSimple(right) >>) >>)

\* exp_simple: termino (MAS | MENOS) termino
Sum(operator, left, right) ==
    Tree("expresion",
         << Tree("exp_simple",
                 << Tree("termino", << Tree("factor", << left >>) >>),
                    Token(operator, operator),
                    Tree("termino", << Tree("factor", << right >>) >>) >>) >>)

\* termino: factor (POR | ENTRE) factor
Product(operator, left, right) ==
    Tree("expresion",
         << Tree("exp_simple",
                 << Tree("termino", << Tree("factor", << left >>),
                                       Token(operator, operator),
                                       Tree("factor", << right >>) >>) >>) >>)

\* factor: primario
Factor(primario) == Tree("factor", << primario >>)

\* factor: PAREN_IZQ expresion PAREN_DER
Grouped(expresion) ==
    Tree("factor", << Token("PAREN_IZQ", "("), expresion, Token("PAREN_DER", ")") >>)

\* termino: factor ((POR | ENTRE) factor)*, the operators given by name
Termino(children) ==
    Tree("termino", [i \in 1..Len(children) |->
                        IF i % 2 = 1 THEN children[i] ELSE Token(children[i], children[i])])

\* exp_simple: termino ((MAS | MENOS) termino)*, the operators given by name
ExpSimpleOf(children) ==
    Tree("exp_simple", [i \in 1..Len(children) |->
                           IF i % 2 = 1 THEN children[i] ELSE Token(children[i], children[i])])

\* the termino of one constant
Number(value) == Termino(<< Factor(Cte("CTE_INT", value)) >>)

\* factor: signo primario
Signed(sign, primario) ==
    Tree("expresion",
         << Tree("exp_simple",
                 << Tree("termino",
                         << Tree("factor", << Tree("signo", << Token(sign, sign) >>),
                                              primario >>) >>) >>) >>)

\* estatutos: estatuto*
Estatutos(statements) ==
    Tree("estatutos", [i \in 1..Len(statements) |-> Tree("estatuto", << statements[i] >>)])

\* cuerpo: LLAVE_IZQ estatutos LLAVE_DER
Cuerpo(statements) ==
    Tree("cuerpo", << Token("LLAVE_IZQ", "{"), Estatutos(statements),
                      Token("LLAVE_DER", "}") >>)

\* asignacion: ID ASIGNA expresion PUNTO_COMA
Asignacion(name, expresion) ==
    Tree("asignacion", << Token("ID", name), Token("ASIGNA", "="), expresion,
                          Token("PUNTO_COMA", ";") >>)

\* llamada_func: ID PAREN_IZQ args? PAREN_DER PUNTO_COMA
LlamadaFunc(name, expresiones) ==
    Tree("llamada_func", << Token("ID", name) >> \o Parenthesized(expresiones)
                         \o << Token("PUNTO_COMA", ";") >>)

\* imprime: ESCRIBE PAREN_IZQ args_imprime PAREN_DER PUNTO_COMA
Imprime(arguments) ==
    Tree("imprime", << Token("ESCRIBE", "escribe"), Token("PAREN_IZQ", "("),
                       Tree("args_imprime", Separated(arguments)),
                       Token("PAREN_DER", ")"), Token("PUNTO_COMA", ";") >>)

\* retorno: RETURN expresion? PUNTO_COMA
Retorno(expresiones) ==
    Tree("retorno", << Token("RETURN", "return") >> \o expresiones
                    \o << Token("PUNTO_COMA", ";") >>)

\* condicion: SI PAREN_IZQ expresion PAREN_DER cuerpo (SINO cuerpo)? PUNTO_COMA
Condicion(expresion, then_statements, else_bodies) ==
    Tree("condicion",
         << Token("SI", "si"), Token("PAREN_IZQ", "("), expresion,
            Token("PAREN_DER", ")"), Cuerpo(then_statements) >>
         \o (IF else_bodies = << >> THEN << >>
             ELSE << Token("SINO", "sino"), Cuerpo(else_bodies[1]) >>)
         \o << Token("PUNTO_COMA", ";") >>)

\* ciclo: MIENTRAS PAREN_IZQ expresion PAREN_DER HAZ cuerpo PUNTO_COMA
Ciclo(expresion, statements) ==
    Tree("ciclo", << Token("MIENTRAS", "mientras"), Token("PAREN_IZQ", "("), expresion,
                     Token("PAREN_DER", ")"), Token("HAZ", "haz"), Cuerpo(statements),
                     Token("PUNTO_COMA", ";") >>)

\* bloque_anidado: CORCHETE_IZQ estatutos CORCHETE_DER
BloqueAnidado(statements) ==
    Tree("bloque_anidado", << Token("CORCHETE_IZQ", "["), Estatutos(statements),
                              Token("CORCHETE_DER", "]") >>)

\* func_decl: tipo_retorno ID PAREN_IZQ params? PAREN_DER LLAVE_IZQ
\*            vars_seccion? estatutos LLAVE_DER PUNTO_COMA
FuncDecl(name, statements) ==
    Tree("func_decl", << Token("ID", name), Token("PAREN_IZQ", "("),
                         Token("PAREN_DER", ")"), Token("LLAVE_IZQ", "{"),
                         Estatutos(statements), Token("LLAVE_DER", "}"),
                         Token("PUNTO_COMA", ";") >>)

\* start: programa, with funcs_seccion: func_decl* and
\* cuerpo_principal: INICIO LLAVE_IZQ estatutos LLAVE_DER FIN
Programa(func_decls, statements) ==
    Tree("start",
         << Tree("programa",
                 << Token("PROGRAMA", "programa"), Token("ID", "p"),
                    Token("PUNTO_COMA", ";"),
                    Tree("funcs_seccion", func_decls),
                    Tree("cuerpo_principal",
                         << Token("INICIO", "inicio"), Token("LLAVE_IZQ", "{"),
                            Estatutos(statements), Token("LLAVE_DER", "}"),
                            Token("FIN", "fin") >>) >>) >>)

-----------------------------------------------------------------------------
(* The programs compiled and run:                                          *)
(*   vars x: int, y: float;                                                *)
(*   void f(a1, a2, ...) { vars m: int, w: float; ... };                   *)
(*   rg   g(b1, b2, ...) { vars r: float; ... };                           *)
(*   inicio { ... } fin                                                    *)
(* A program is the record of its parameter types (pf, pg), the return     *)
(* type of g (rg) and the statements of f, of g and of the main body.      *)

\* The bound on the number of parameters of f and of g.
MaxParams == 2

\* The bound on the number of statements of the main body.
MaxStatements == 2

ParamTypes == UNION {[1..n -> {INT, FLOAT}] : n \in 0..MaxParams}

\* FunctionInfo.add_parameter for each type of the list, named prefix1, ...
RECURSIVE WithParameters(_, _, _, _)
WithParameters(function_info, prefix, types, k) ==
    IF k > Len(types) THEN function_info
    ELSE WithParameters(
             add_parameter(function_info, prefix \o NatToStr(k), types[k]).function_info,
             prefix, types, k + 1)

\* The directory the declarations of the program give, before addresses.
Declared(program) ==
    [add_global_variable(
         add_global_variable(FunctionDirectory, "x", INT).directory,
         "y", FLOAT).directory
     EXCEPT !.functions =
       << add_local_variable(
              add_local_variable(
                  WithParameters(FunctionInfo("f", VOID), "a", program.pf, 1),
                  "m", INT).function_info,
              "w", FLOAT).function_info,
          add_local_variable(
              WithParameters(FunctionInfo("g", program.rg), "b", program.pg, 1),
              "r", FLOAT).function_info >>]

\* One literal per parameter: the k-th is k, written as an integer for an
\* INT parameter and, unless all_int, as a float for a FLOAT one.
Arguments(types, all_int) ==
    [k \in 1..Len(types) |->
        Expresion(IF all_int \/ types[k] = INT
                    THEN Cte("CTE_INT", NatToStr(k))
                    ELSE Cte("CTE_FLOAT", NatToStr(k) \o ".0"))]

One == Expresion(Cte("CTE_INT", "1"))

Two == Expresion(Cte("CTE_INT", "2"))

\* The statement a code of the program stands for.
Statement(code, program) ==
    CASE code = "x=1"     -> Asignacion("x", One)
      [] code = "y=x"     -> Asignacion("y", Expresion(Id("x")))
      [] code = "x=y"     -> Asignacion("x", Expresion(Id("y")))
      [] code = "x=-x"    -> Asignacion("x", Signed("MENOS", Id("x")))
      [] code = "x=x+1"   -> Asignacion("x", Sum("PLUS", Id("x"), Cte("CTE_INT", "1")))
      [] code = "x=x MAS 1" -> Asignacion("x", Sum("MAS", Id("x"), Cte("CTE_INT", "1")))
      [] code = "y=x*y"   -> Asignacion("y", Product("STAR", Id("x"), Id("y")))
      [] code = "f()"     -> LlamadaFunc("f", Arguments(program.pf, FALSE))
      [] code = "f(int)"  -> LlamadaFunc("f", Arguments(program.pf, TRUE))
      [] code = "g()"     -> LlamadaFunc("g", Arguments(program.pg, FALSE))
      [] code = "y=g()"   ->
             Asignacion("y", Expresion(Call("g", Arguments(program.pg, FALSE))))
      [] code = "f(g())"  ->
             LlamadaFunc("f", << Expresion(Call("g", Arguments(program.pg, FALSE))) >>
                              \o (IF program.pf = << >> THEN << >>
                                  ELSE Tail(Arguments(program.pf, FALSE))))
      [] code = "f(more)" -> LlamadaFunc("f", Arguments(program.pf \o << INT >>, FALSE))
      [] code = "x=f()"   ->
             Asignacion("x", Expresion(Call("f", Arguments(program.pf, FALSE))))
      [] code = "k()"     -> LlamadaFunc("k", << >>)
      [] code = "x=k()"   -> Asignacion("x", Expresion(Call("k", << >>)))
      [] code = "f(float)" ->
             LlamadaFunc("f", [k \in 1..Len(program.pf) |->
                                  Expresion(Cte("CTE_FLOAT", NatToStr(k) \o ".0"))])
      [] code = "if"      ->
             Condicion(Relation("GREATER", Id("x"), Cte("CTE_INT", "1")),
                       << Asignacion("x", Two) >>, << >>)
      [] code = "if else" ->
             Condicion(Relation("LESS", Id("x"), Cte("CTE_INT", "1")),
                       << Asignacion("x", Two) >>, << << Asignacion("x", One) >> >>)
      [] code = "if f()"  ->
             Condicion(Relation("EQUAL", Id("x"), Cte("CTE_INT", "1")),
                       << LlamadaFunc("f", Arguments(program.pf, FALSE)) >>, << >>)
      [] code = "if x"    -> Condicion(Expresion(Id("x")), << Asignacion("x", Two) >>, << >>)
      [] code = "if MAYOR" ->
             Condicion(Relation("MAYOR", Id("x"), Cte("CTE_INT", "1")),
                       << Asignacion("x", Two) >>, << >>)
      [] code = "while"   ->
             Ciclo(Relation("NOTEQUAL", Id("x"), Cte("CTE_INT", "1")),
                   << Asignacion("x", One) >>)
      [] code = "print"   ->
             Imprime(<< Token("CTE_STRING", "\"a\""), Expresion(Id("x")) >>)
      [] code = "print a" -> Imprime(<< Token("CTE_STRING", "\"a\"") >>)
      [] code = "block"   -> BloqueAnidado(<< Asignacion("x", One) >>)
      [] code = "return"  -> Retorno(<< >>)
      [] code = "return 1" -> Retorno(<< One >>)
      [] code = "return r" -> Retorno(<< Expresion(Id("r")) >>)
      [] code = "return b1" -> Retorno(<< Expresion(Id("b1")) >>)
      [] code = "return g+g" ->
             Retorno(<< Sum("PLUS", Call("g", << One >>), Call("g", << Two >>)) >>)
      [] code = "y=g(1)+g(2)" ->
             Asignacion("y", Sum("PLUS", Call("g", << One >>), Call("g", << Two >>)))
      [] code = "return g()" ->
             Retorno(<< Expresion(Call("g", Arguments(program.pg, FALSE))) >>)
      [] code = "m=1"     -> Asignacion("m", One)
      [] code = "r=2.0"   -> Asignacion("r", Expresion(Cte("CTE_FLOAT", "2.0")))
      [] code = "if return" ->
             Condicion(Relation("GREATER", Id("x"), Cte("CTE_INT", "1")),
                       << Retorno(<< >>) >>, << >>)
      [] code = "while return" ->
             Ciclo(Relation("LESS", Id("x"), Cte("CTE_INT", "1")),
                   << Condicion(Relation("EQUAL", Id("x"), Cte("CTE_INT", "2")),
                                << Retorno(<< >>) >>, << >>) >>)
      [] code = "if nested" ->
             Condicion(Relation("GREATER", Id("x"), Cte("CTE_INT", "1")),
                       << Condicion(Relation("LESS", Id("y"), Id("x")),
                                    << Asignacion("x", Two) >>,
                                    << << Asignacion("x", One) >> >>),
                          Asignacion("y", Expresion(Id("x"))) >>,
                       << << Ciclo(Relation("NOTEQUAL", Id("x"), Cte("CTE_INT", "1")),
                                   << Asignacion("x", One) >>) >> >>)
      [] code = "while nested" ->
             Ciclo(Relation("LESS", Id("x"), Cte("CTE_INT", "2")),
                   << Ciclo(Relation("GREATER", Id("x"), Id("y")),
                            << Condicion(Relation("EQUAL", Id("x"), Cte("CTE_INT", "2")),
                                         << Asignacion("y", Expresion(Id("x"))) >>,
                                         << << Asignacion("x", One) >> >>) >>),
                      Asignacion("x", Two) >>)
      [] code = "x=1+2*3" ->
             Asignacion("x", Tree("expresion", << ExpSimpleOf(
                 << Number("1"), "MAS",
                    Termino(<< Factor(Cte("CTE_INT", "2")), "POR",
                               Factor(Cte("CTE_INT", "3")) >>) >>) >>))
      [] code = "x=1 PLUS 2 STAR 3" ->
             Asignacion("x", Tree("expresion", << ExpSimpleOf(
                 << Number("1"), "PLUS",
                    Termino(<< Factor(Cte("CTE_INT", "2")), "STAR",
                               Factor(Cte("CTE_INT", "3")) >>) >>) >>))
      [] code = "x=(1+2)*3" ->
             Asignacion("x", Tree("expresion", << ExpSimpleOf(
                 << Termino(<< Grouped(Sum("PLUS", Cte("CTE_INT", "1"),
                                           Cte("CTE_INT", "2"))),
                               "STAR", Factor(Cte("CTE_INT", "3")) >>) >>) >>))
      [] code = "x=3-2-1" ->
             Asignacion("x", Tree("expresion", << ExpSimpleOf(
                 << Number("3"), "MINUS", Number("2"), "MINUS", Number("1") >>) >>))
      [] code = "if 1+2<3*1" ->
             Condicion(Tree("expresion",
                            << ExpSimpleOf(<< Number("1"), "PLUS", Number("2") >>),
                               Tree("cola_relacional",
                                    << Token("LESS", "LESS"),
                                       ExpSimpleOf(<< Termino(
                                           << Factor(Cte("CTE_INT", "3")), "STAR",
                                              Factor(Cte("CTE_INT", "1")) >>) >>) >>) >>),
                       << Asignacion("x", Two) >>, << >>)
      [] code = "print x" -> Imprime(<< Expresion(Id("x")) >>)
      [] code = "y=1/0" -> Asignacion("y", Product("ENTRE", Cte("CTE_INT", "1"),
                                                  Cte("CTE_INT", "0")))
      [] code = "y=1 SLASH 0" -> Asignacion("y", Product("SLASH", Cte("CTE_INT", "1"),
                                                        Cte("CTE_INT", "0")))
      [] code = "if returns" ->
             Condicion(Relation("GREATER", Id("x"), Cte("CTE_INT", "1")),
                       << Retorno(<< One >>) >>, << << Retorno(<< Two >>) >> >>)

Statements(codes, program) == [i \in 1..Len(codes) |-> Statement(codes[i], program)]

\* The parse tree of the program.
ProgramTree(program) ==
    Programa(<< FuncDecl("f", Statements(program.f, program)),
                FuncDecl("g", Statements(program.g, program)) >>,
             Statements(program.main, program))

\* The statements the main body is drawn from.
MainCodes ==
    {"x=1", "y=x", "x=y", "x=-x", "x=x+1", "x=x MAS 1", "y=x*y", "f()", "f(int)",
     "y=g()", "f(g())", "f(more)", "x=f()", "k()", "if", "if else", "if f()", "if x",
     "if MAYOR", "while", "if nested", "while nested", "print", "print a", "block",
     "return", "return 1", "if return", "x=1+2*3", "x=1 PLUS 2 STAR 3", "x=(1+2)*3", "x=3-2-1", "if 1+2<3*1",
     "print x", "x=k()", "y=1/0", "y=1 SLASH 0"}

\* The bodies f is given.
BodiesF ==
    {<< >>, << "m=1" >>, << "return" >>, << "return 1" >>, << "f()" >>, << "g()" >>,
     << "if return", "m=1" >>, << "while return" >>, << "if", "while" >>}

\* The bodies g is given.
BodiesG ==
    {<< >>, << "return 1" >>, << "return" >>, << "r=2.0", "return r" >>,
     << "return g()" >>, << "if returns" >>, << "f()", "return 1" >>,
     << "return b1" >>, << "return g+g" >>}

Program(pf, pg, rg, f, g, main) ==
    [pf |-> pf, pg |-> pg, rg |-> rg, f |-> f, g |-> g, main |-> main]

\* Every mix of parameter types under each call, every body of f and of g
\* under a call of each, and every main body of up to MaxStatements
\* statements.
Programs ==
    {Program(pf, pg, rg, << "m=1" >>, << "return 1" >>, << main >>) :
        pf \in ParamTypes, pg \in ParamTypes, rg \in {INT, FLOAT},
        main \in {"f()", "f(int)", "f(float)", "y=g()", "f(g())", "y=g(1)+g(2)"}}
    \cup
    {Program(<< INT >>, << INT >>, INT, f, g, << main >>) :
        f \in BodiesF, g \in BodiesG, main \in {"f()", "y=g()", "if", "y=g(1)+g(2)"}}
    \cup
    {Program(<< INT >>, << FLOAT >>, INT, << "m=1" >>, << "return 1" >>, main) :
        main \in UNION {[1..n -> MainCodes] : n \in 0..MaxStatements}}

-----------------------------------------------------------------------------
(* patito_compiler.py, PatitoCompiler.run: the addresses are assigned, the *)
(* program is lowered, the constants are loaded and the machine runs the   *)
(* quadruples.                                                              *)

Init ==
    \E program \in Programs :
        /\ function_directory = Declared(program)
        /\ virtual_memory = VirtualMemory
        /\ program_tree = ProgramTree(program)
        /\ generator = << >>
        /\ phase = "assign"
        /\ quadruples = << >>
        /\ memory = ExecutionMemory
        /\ ip = 0
        /\ halted = FALSE
        /\ return_address_stack = << >>
        /\ pending_frame = << >>
        /\ output = << >>
        /\ vm_error = "none"
        /\ calls = << >>

Idle == UNCHANGED << quadruples, memory, ip, halted, return_address_stack,
                     pending_frame, output, vm_error, calls >>

AssignVariableAddresses ==
    /\ phase = "assign"
    /\ LET assigned == assign_variable_addresses(function_directory, virtual_memory)
       IN  /\ function_directory' = assigned.function_directory
           /\ virtual_memory' = assigned.virtual_memory
    /\ phase' = "generate"
    /\ UNCHANGED << program_tree, generator >>
    /\ Idle

\* generate_program on a new generator; an exception ends the pipeline.
GenerateProgram ==
    /\ phase = "generate"
    /\ generator' = generate_program(
                        ExpressionQuadrupleGenerator(function_directory, virtual_memory),
                        program_tree)
    /\ virtual_memory' = generator'.virtual_memory
    /\ phase' = IF generator'.error = "none" THEN "load" ELSE "failed"
    /\ UNCHANGED << function_directory, program_tree >>
    /\ Idle

\* memory.load_constants and VirtualMachine(quadruples, memory, directory)
LoadConstants ==
    /\ phase = "load"
    /\ LET loaded == load_constants(memory, virtual_memory.constant_table)
           machine == VirtualMachine(generator.context.quadruples, loaded.memory,
                                     << function_directory >>)
       IN  /\ quadruples' = machine.quadruples
           /\ Becomes([machine EXCEPT !.error = loaded.error])
    /\ phase' = "run"
    /\ UNCHANGED << function_directory, virtual_memory, program_tree, generator, calls >>

Next ==
    \/ AssignVariableAddresses
    \/ GenerateProgram
    \/ LoadConstants
    \/ ExecuteAssign
    \/ ExecutePrint
    \/ ExecuteGoto
    \/ ExecuteUminus
    \/ ExecuteBeginfunc
    \/ ExecuteEndfunc
    \/ ExecuteEra
    \/ ExecuteParam
    \/ ExecuteGosub
    \/ ExecuteUnsupported

Spec == Init /\ [][Next]_vars

-----------------------------------------------------------------------------
(* Properties of the machine and its memory *)

\* run() is about to execute a quadruple with this operator.
Executing(operator) == Running /\ CurrentQuad.operator = operator

\* The handler of the step returned (no exception left it).
Returned == vm_error' = "none"

\* The bound on the offsets of the LOCAL and TEMP addresses compared.
MaxOffset == 4

\* LOCAL and TEMP addresses of every type.
FrameAddresses ==
    { start + k : start \in { LOCAL_INT_START, LOCAL_FLOAT_START, LOCAL_BOOL_START,
                              TEMP_INT_START, TEMP_FLOAT_START, TEMP_BOOL_START },
                  k \in 0..MaxOffset }

FrameLists ==
    { "local_ints", "local_floats", "local_bools",
      "temp_ints", "temp_floats", "temp_bools" }

\* C4: when the ENDFUNC matching a GOSUB returns, every LOCAL and TEMP
\* address reads, in the caller's frame, what it read just before the GOSUB
\* (the same value, or the same failure for a slot never written), and the
\* caller's activation record is the record it was: the callee's writes,
\* recursive calls included, stay in the callee's frame.
C4_CallerFrameUntouched ==
    [][ (Executing("ENDFUNC") /\ Returned /\ calls # << >>) =>
          /\ \A a \in FrameAddresses :
                 read(memory', a) = read(Last(calls).memory, a)
          /\ Last(memory'.call_stack) = Last(Last(calls).memory.call_stack)
      ]_vars

\* A recursive call of f returned into a frame of f whose m (1) differs
\* from the m the callee wrote in its own frame (0).
C4_Witness ==
    /\ vm_error = "none"
    /\ ip = 8
    /\ calls # << >>
    /\ Last(memory.call_stack).function_name = "f"
    /\ read(memory, FM) = [ok |-> TRUE, error |-> "none", value |-> 1]

\* C5: the call stack always holds at least one frame and its bottom frame
\* is the main frame of the construction, whatever prepare_frame, push_frame,
\* pop_frame calls and quadruple executions happened; a pop_frame called
\* with only the main frame left raises and leaves the call stack as it was.
C5_MainFrameStays ==
    /\ [](/\ Len(memory.call_stack) >= 1
          /\ memory.call_stack[1].function_name = "__main__"
          /\ memory.call_stack[1].local_base = None
          /\ memory.call_stack[1].temp_base = None)
    /\ [][ (PopFrame /\ Len(memory.call_stack) = 1) =>
             /\ vm_error' = "RuntimeError"
             /\ memory'.call_stack = memory.call_stack
         ]_vars

\* The client popped with only the main frame left, after the machine had
\* made and returned from a call (ip 6 holds MAYOR, which raises no
\* RuntimeError itself).
C5_Witness ==
    /\ vm_error = "RuntimeError"
    /\ ip = 6
    /\ Len(memory.call_stack) = 1
    /\ quadruples = ClientProgram

\* C6: ENDFUNC executed with an empty return-address stack sets halted and
\* raises nothing; with a return address on the stack, ip becomes the
\* popped address.
C6_EndfuncHaltsOrReturns ==
    [][ Executing("ENDFUNC") =>
          IF return_address_stack = << >>
            THEN halted' /\ vm_error' = "none"
            ELSE ip' = Last(return_address_stack)
                 /\ return_address_stack' = Front(return_address_stack)
      ]_vars

\* C7: when the ENDFUNC matching the GOSUB executed at index i returns, ip
\* is i + 1 and the call stack is back to the depth it had at the GOSUB with
\* the same function's frame on top; calls return last-in first-out.
C7_ReturnToCaller ==
    [][ (Executing("ENDFUNC") /\ Returned /\ calls # << >>) =>
          /\ ip' = Last(calls).site + 1
          /\ Len(memory'.call_stack) = Len(Last(calls).memory.call_stack)
          /\ Last(memory'.call_stack).function_name
               = Last(Last(calls).memory.call_stack).function_name
          /\ calls' = Front(calls)
          /\ Len(return_address_stack') = Len(calls')
      ]_vars

\* The innermost of three nested calls of f returned to the GOSUB at 7
\* while two calls are still open.
C7_Witness ==
    /\ vm_error = "none"
    /\ ip = 8
    /\ Len(calls) = 2
    /\ Last(calls).site = 7
    /\ Len(memory.call_stack) = 3

\* PARAM changed the frame in one slot of one LOCAL list and nothing else.
OneSlotWritten(before, after) ==
    \E attr \in { "local_ints", "local_floats", "local_bools" } :
      \E k \in 0..(after[attr].len - 1) :
        /\ after = [before EXCEPT ![attr] = after[attr]]
        /\ after[attr].len >= before[attr].len
        /\ \A j \in (0..(after[attr].len - 1)) \ {k} :
               ListGet(after[attr], j, 0)
                 = IF j < before[attr].len THEN ListGet(before[attr], j, 0) ELSE 0

\* C8: ERA and PARAM leave the call stack (and so the active frame's LOCAL
\* and TEMP lists), GLOBAL memory and the return-address stack unchanged;
\* ERA sets pending_frame to a fresh empty frame for the named function,
\* PARAM writes one slot of pending_frame; the call stack grows only in a
\* GOSUB step, and GOSUB clears pending_frame.
C8_EraParamGosubFrame ==
    [][ /\ (Executing("ERA") \/ Executing("PARAM")) =>
              /\ memory' = memory
              /\ return_address_stack' = return_address_stack
        /\ Executing("ERA") =>
              /\ Len(pending_frame') = 1
              /\ pending_frame'[1].function_name = CurrentQuad.left_operand
              /\ \A attr \in FrameLists : pending_frame'[1][attr] = EmptyList
        /\ (Executing("PARAM") /\ Returned) =>
              /\ Len(pending_frame') = 1
              /\ OneSlotWritten(pending_frame[1], pending_frame'[1])
        /\ Len(memory'.call_stack) > Len(memory.call_stack) => Executing("GOSUB")
        /\ (Executing("GOSUB") /\ Returned) =>
              /\ pending_frame' = << >>
              /\ memory'.call_stack = Append(memory.call_stack, pending_frame[1])
      ]_vars

\* The second PARAM of the call g(n, 1) wrote its slot of the pending frame
\* while the main frame is the only active one.
C8_Witness ==
    /\ vm_error = "none"
    /\ pending_frame # << >>
    /\ pending_frame[1].function_name = "g"
    /\ pending_frame[1].local_ints.len = 2
    /\ ListGet(pending_frame[1].local_ints, 1, 0) = 1
    /\ Len(memory.call_stack) = 1

-----------------------------------------------------------------------------
(* Properties of the emitted quadruples *)

\* generate_program returned without an exception.
Generated == phase \in {"load", "run"}

\* The emitted queue; Emitted[i + 1] is the quadruple of index i.
Emitted == generator.context.quadruples

Jumps == {"GOTO", "GOTOF", "GOSUB"}

\* The quadruple at position i lies after the last ENDFUNC: it belongs to
\* the main body.
InMainBody(i) == \A j \in i..Len(Emitted) : Emitted[j].operator # "ENDFUNC"

\* C1 as stated: after generate_program succeeds, every GOTO, GOTOF and
\* GOSUB quadruple has a result i with 0 <= i < len(queue), wherever the
\* statement that produced it occurs, the last statement of the main body
\* included.
C1_JumpTargetsInsideQueue ==
    Generated =>
      \A i \in DOMAIN Emitted :
        Emitted[i].operator \in Jumps =>
          0 <= Emitted[i].result /\ Emitted[i].result < Len(Emitted)

\* C1, amended: after generate_program succeeds, every GOTO, GOTOF and
\* GOSUB quadruple has a result i with 0 <= i <= len(queue); i equals
\* len(queue) only for a GOTO or GOTOF of the main body (the exit of an if
\* or a while that ends the main body), so every GOSUB and every jump of a
\* function body has i < len(queue).
C1_JumpTargetsUpToQueueEnd ==
    Generated =>
      \A i \in DOMAIN Emitted :
        Emitted[i].operator \in Jumps =>
          /\ 0 <= Emitted[i].result
          /\ Emitted[i].result <= Len(Emitted)
          /\ Emitted[i].result = Len(Emitted) =>
               Emitted[i].operator # "GOSUB" /\ InMainBody(i)

\* A program was generated whose main body calls a function and ends in an
\* if or a while: a jump leads to len(queue) and a GOSUB into the queue.
C1_Witness ==
    /\ Generated
    /\ \E i \in DOMAIN Emitted :
         Emitted[i].operator \in {"GOTO", "GOTOF"}
         /\ Emitted[i].result = Len(Emitted)
    /\ \E i \in DOMAIN Emitted :
         Emitted[i].operator = "GOSUB" /\ InMainBody(i)
         /\ Emitted[i].result < Len(Emitted)

\* len(function_info.parameter_list) of the function a quadruple names
ParameterCount(quad) ==
    Len(get_function(function_directory, quad.left_operand).parameter_list)

\* C9: in every emitted program each ERA f is immediately followed by
\* exactly n PARAM quadruples with result positions 1, 2, ..., n in that
\* order (n the number of parameters of f) and then by GOSUB f; every PARAM
\* and every GOSUB belongs to such a group, so no other quadruple, and no
\* other ERA, lies between an ERA and its GOSUB, even when the argument
\* expressions contain calls.
C9_EraParamsGosubAdjacent ==
    Generated =>
      /\ \A i \in DOMAIN Emitted :
           Emitted[i].operator = "ERA" =>
             LET n == ParameterCount(Emitted[i])
             IN  /\ i + n + 1 <= Len(Emitted)
                 /\ \A k \in 1..n :
                      /\ Emitted[i + k].operator = "PARAM"
                      /\ Emitted[i + k].result = k
                 /\ Emitted[i + n + 1].operator = "GOSUB"
                 /\ Emitted[i + n + 1].left_operand = Emitted[i].left_operand
      /\ \A j \in DOMAIN Emitted :
           Emitted[j].operator = "GOSUB" =>
             LET i == j - ParameterCount(Emitted[j]) - 1
             IN  /\ i >= 1
                 /\ Emitted[i].operator = "ERA"
                 /\ Emitted[i].left_operand = Emitted[j].left_operand
      /\ \A j \in DOMAIN Emitted :
           Emitted[j].operator = "PARAM" =>
             /\ j - Emitted[j].result >= 1
             /\ Emitted[j - Emitted[j].result].operator = "ERA"

\* The call f(g(...), ...) was generated: the group of g ends before the
\* ERA of f, and the first PARAM of f passes the temporary that holds the
\* value g returned.
C9_Witness ==
    /\ Generated
    /\ \E i \in DOMAIN Emitted, j \in DOMAIN Emitted :
         /\ Emitted[i].operator = "GOSUB" /\ Emitted[i].left_operand = "g"
         /\ i < j
         /\ Emitted[j].operator = "ERA" /\ Emitted[j].left_operand = "f"
         /\ ParameterCount(Emitted[j]) = 2
         /\ Emitted[j + 1].operator = "PARAM"
         /\ Emitted[j + 1].left_operand >= TEMP_INT_START
         /\ Emitted[j + 1].left_operand < CONST_INT_START
         /\ InMainBody(j)

\* C10: after generate_program succeeds, every GOSUB naming a function f,
\* emitted before f's body (forward call), inside it (recursion) or after
\* it, has as result the index of f's BEGINFUNC quadruple plus one; no
\* GOSUB result is left unset.
C10_GosubTargetsFunctionStart ==
    Generated =>
      \A i \in DOMAIN Emitted :
        Emitted[i].operator = "GOSUB" =>
          /\ Emitted[i].result # None
          /\ \E b \in DOMAIN Emitted :
               /\ Emitted[b].operator = "BEGINFUNC"
               /\ Emitted[b].left_operand = Emitted[i].left_operand
               /\ Emitted[i].result = (b - 1) + 1

\* A program was generated in which f calls g before g is generated, g
\* calls itself and the main body calls f after both.
C10_Witness ==
    /\ Generated
    /\ \E i \in DOMAIN Emitted, b \in DOMAIN Emitted :
         /\ Emitted[i].operator = "GOSUB" /\ Emitted[i].left_operand = "g"
         /\ Emitted[b].operator = "BEGINFUNC" /\ Emitted[b].left_operand = "g"
         /\ i < b
    /\ \E i \in DOMAIN Emitted, b \in DOMAIN Emitted :
         /\ Emitted[i].operator = "GOSUB" /\ Emitted[i].left_operand = "g"
         /\ Emitted[b].operator = "BEGINFUNC" /\ Emitted[b].left_operand = "g"
         /\ b < i /\ ~InMainBody(i)
    /\ \E i \in DOMAIN Emitted :
         Emitted[i].operator = "GOSUB" /\ Emitted[i].left_operand = "f"
         /\ InMainBody(i)

-----------------------------------------------------------------------------
(* Properties of the calling convention, generator and machine together *)

\* C2: for every call the generator accepted, once the machine has executed
\* the emitted ERA, PARAM 1..n and GOSUB, a read of the callee's k-th
\* parameter address in the activated frame returns the value of the k-th
\* argument (the value the PARAM read at its left operand in the caller's
\* context), for every k, every mix of INT and FLOAT parameters and every
\* function of the directory.
C2_ParametersHoldArguments ==
    [][ (Executing("GOSUB") /\ Returned) =>
          LET function_info == get_function(function_directory, CurrentQuad.left_operand)
              n == Len(function_info.parameter_list)
          IN  \A k \in 1..n :
                LET argument == read(memory, quadruples[ip - n + k].left_operand)
                    parameter == read(memory', function_info.parameter_list[k].virtual_address)
                IN  parameter.ok /\ parameter.value = argument.value
      ]_vars

\* C3: while a frame prepared by ERA f is on top of the call stack, for
\* every declared local variable or parameter of f with address a,
\* write(a, v) succeeds and the read(a) that follows it succeeds and
\* returns v.
C3_LocalsOfActiveFrameReadBack ==
    (phase = "run" /\ Len(memory.call_stack) > 1) =>
      LET function_info ==
              get_function(function_directory, Last(memory.call_stack).function_name)
      IN  \A i \in DOMAIN function_info.local_variables, v \in {0, 1} :
            LET a == function_info.local_variables[i].virtual_address
                written == write(memory, a, v)
            IN  /\ written.ok
                /\ read(written.memory, a) = [ok |-> TRUE, error |-> "none", value |-> v]

-----------------------------------------------------------------------------
(* Properties of return statements and of backpatching *)

\* The number of trees of a rule among the trees of a list and their
\* descendants.
RECURSIVE CountRule(_, _)
CountRule(nodes, rule) ==
    IF nodes = << >> THEN 0
    ELSE LET node == Head(nodes)
         IN  IF node.kind = "Tree"
               THEN (IF node.data = rule THEN 1 ELSE 0)
                    + CountRule(node.children \o Tail(nodes), rule)
               ELSE CountRule(Tail(nodes), rule)

\* The func_decl trees of the program.
FuncDecls ==
    LET programa == program_tree.children[1]
    IN  Trees(Trees(programa.children, "funcs_seccion")[1].children, "func_decl")

\* The func_decl tree of a function.
FuncDeclOf(function_name) ==
    LET decls == FuncDecls
    IN  decls[CHOOSE i \in DOMAIN decls :
                  Tokens(decls[i].children, "ID")[1].value = function_name]

\* The position (index + 1) of the ENDFUNC quadruple of a function.
EndfuncOf(function_name) ==
    CHOOSE e \in DOMAIN Emitted :
        Emitted[e].operator = "ENDFUNC" /\ Emitted[e].left_operand = function_name

\* The indices of the GOTO quadruples the return statements of a function
\* emitted, as the generator recorded them.
ReturnGotos(function_name) == generator.pending_return_gotos[function_name]

\* C11: for every return statement inside a function f, however deeply
\* nested in if or while bodies, the GOTO it emitted (one per return
\* statement) ends generation with result equal to the index of f's ENDFUNC
\* quadruple, and when f is typed that GOTO is immediately preceded by an
\* ASSIGN to f's return slot from the returned expression's address (the
\* result of the quadruple before it when that address is a temporary).
C11_ReturnsJumpToEndfunc ==
    Generated =>
      \A d \in DOMAIN FuncDecls :
        LET f == Tokens(FuncDecls[d].children, "ID")[1].value
            function_info == get_function(function_directory, f)
        IN  /\ Len(ReturnGotos(f)) = CountRule(<< FuncDecls[d] >>, "retorno")
            /\ \A r \in DOMAIN ReturnGotos(f) :
                 LET i == ReturnGotos(f)[r] + 1
                 IN  /\ Emitted[i].operator = "GOTO"
                     /\ Emitted[i].result = EndfuncOf(f) - 1
                     /\ function_info.return_type # VOID =>
                          /\ Emitted[i - 1].operator = "ASSIGN"
                          /\ Emitted[i - 1].result
                               = get_function_return_address(virtual_memory, f)
                          /\ Emitted[i - 1].left_operand # None
                          /\ decode_address(Emitted[i - 1].left_operand).segment = "TEMP"
                               => Emitted[i - 1].left_operand = Emitted[i - 2].result

\* A program was generated in which the void f returns from an if inside a
\* while and the typed g returns a value from both branches of an if.
C11_Witness ==
    /\ Generated
    /\ Len(ReturnGotos("f")) = 1
    /\ Emitted[ReturnGotos("f")[1] + 2].operator # "ENDFUNC"
    /\ CountRule(<< FuncDeclOf("f") >>, "ciclo") = 1
    /\ Len(ReturnGotos("g")) = 2
    /\ Emitted[ReturnGotos("g")[1]].operator = "ASSIGN"
    /\ Emitted[ReturnGotos("g")[2]].operator = "ASSIGN"

\* generate_program returned or raised: the generator is as the call left it.
GenerationEnded == phase \in {"load", "run", "failed"}

\* C12: across the whole generation of a program (one that fails included)
\* every mutation of an appended quadruple is an update_result that finds,
\* at an index below the length of the queue, a GOTO, GOTOF or GOSUB whose
\* result was unset; no index is patched twice; and the quadruple at a
\* patched index ends with the operator and operands it had and the result
\* the patch gave it.
C12_OnlyUnsetJumpsArePatchedOnce ==
    GenerationEnded =>
      \A k \in DOMAIN generator.patches :
        LET patch == generator.patches[k]
            final == Emitted[patch.index + 1]
        IN  /\ 0 <= patch.index /\ patch.index < patch.length
            /\ patch.length <= Len(Emitted)
            /\ patch.quad.operator \in Jumps
            /\ patch.old = None
            /\ final = [patch.quad EXCEPT !.result = patch.new]
            /\ \A j \in DOMAIN generator.patches :
                 j # k => generator.patches[j].index # patch.index

\* A program was generated with a forward call, an if-else and two return
\* statements: a GOSUB, a GOTOF and three GOTOs were patched.
C12_Witness ==
    /\ Generated
    /\ \E k \in DOMAIN generator.patches : generator.patches[k].quad.operator = "GOSUB"
    /\ \E k \in DOMAIN generator.patches : generator.patches[k].quad.operator = "GOTOF"
    /\ Len(generator.patches) >= 5

\* The position (index + 1) of the BEGINFUNC quadruple of a function.
BeginfuncOf(function_name) ==
    CHOOSE b \in DOMAIN Emitted :
        Emitted[b].operator = "BEGINFUNC" /\ Emitted[b].left_operand = function_name

\* The functions whose quadruples were emitted.
EmittedFunctions ==
    {Emitted[b].left_operand : b \in {i \in DOMAIN Emitted : Emitted[i].operator = "BEGINFUNC"}}

\* The function whose body holds the quadruple of an index; NoName for a
\* quadruple of the main body.
OwnerOf(index) ==
    LET owners == {f \in EmittedFunctions :
                      BeginfuncOf(f) <= index + 1 /\ index + 1 <= EndfuncOf(f)}
    IN  IF owners = {} THEN NoName ELSE CHOOSE f \in owners : TRUE

\* A patch made while its quadruple's owner was being generated: the owner
\* was the current function and, for a function, nothing had been appended
\* after its ENDFUNC.
PatchedWithinOwner(patch) ==
    LET owner == OwnerOf(patch.index)
    IN  /\ patch.current = owner
        /\ owner # NoName => patch.length <= EndfuncOf(owner)

\* C13 as stated: every backpatch of a GOTO, GOTOF or GOSUB quadruple
\* happens before the generation of the function whose body contains the
\* quadruple has ended, calls to functions declared later included.
C13_PatchedBeforeOwnerEnds ==
    Generated =>
      \A k \in DOMAIN generator.patches : PatchedWithinOwner(generator.patches[k])

\* C13, amended: every backpatch of a GOTO or GOTOF happens before the
\* generation of the function (or main body) that contains it has ended; a
\* GOSUB is backpatched only for a call to a function declared later, at
\* the moment the callee's BEGINFUNC has been appended, which is after the
\* caller's generation ended and before generate_program returns.
C13_JumpsPatchedWithinOwnerGosubsAtCallee ==
    Generated =>
      \A k \in DOMAIN generator.patches :
        LET patch == generator.patches[k]
        IN  IF patch.quad.operator = "GOSUB"
              THEN /\ patch.current = patch.quad.left_operand
                   /\ patch.length = BeginfuncOf(patch.current)
                   /\ patch.new = BeginfuncOf(patch.current)
                   /\ OwnerOf(patch.index) \notin {NoName, patch.current}
                   /\ EndfuncOf(OwnerOf(patch.index)) < patch.length
              ELSE PatchedWithinOwner(patch)

\* A program was generated in which f calls g, declared after it, g patches
\* the jumps of an if-else and of its returns, and the main body patches
\* the GOTOF of an if.
C13_Witness ==
    /\ Generated
    /\ \E k \in DOMAIN generator.patches :
         /\ generator.patches[k].quad.operator = "GOSUB"
         /\ OwnerOf(generator.patches[k].index) = "f"
         /\ generator.patches[k].current = "g"
    /\ \E k \in DOMAIN generator.patches :
         /\ generator.patches[k].quad.operator = "GOTO"
         /\ OwnerOf(generator.patches[k].index) = "g"
    /\ \E k \in DOMAIN generator.patches :
         /\ generator.patches[k].quad.operator = "GOTOF"
         /\ OwnerOf(generator.patches[k].index) = NoName

-----------------------------------------------------------------------------
(* Properties of the control flow *)

\* The if and while statements lowered so far, in the order they ended.
Marks == generator.marks

Ifs == {k \in DOMAIN Marks : Marks[k].kind = "condicion"}

Whiles == {k \in DOMAIN Marks : Marks[k].kind = "ciclo"}

\* The positions (index + 1) of the emitted GOTOF quadruples.
Gotofs == {i \in DOMAIN Emitted : Emitted[i].operator = "GOTOF"}

\* Statement k was lowered inside the first block of statement j.
Within(k, j) ==
    /\ Marks[j].gotof_index < Marks[k].start
    /\ Marks[k].gotof_index < Marks[j].block_end

\* C26: for every if statement lowered, the quadruple at its GOTOF index
\* is a GOTOF whose result is the queue length after the then block when
\* there is no else, and the index right after the skipping GOTO when there
\* is one; with an else, the quadruple after the then block is a GOTO whose
\* result is the queue length after the else block; and in a generated
\* program every GOTOF belongs to exactly one if or while.
C26_IfJumpsPastBlocks ==
    GenerationEnded =>
      /\ \A k \in Ifs :
           LET mark == Marks[k]
               gotof == Emitted[mark.gotof_index + 1]
           IN  /\ gotof.operator = "GOTOF"
               /\ mark.start <= mark.gotof_index
               /\ mark.gotof_index < mark.block_end
               /\ IF mark.has_else
                    THEN /\ gotof.result = mark.block_end + 1
                         /\ Emitted[mark.block_end + 1].operator = "GOTO"
                         /\ Emitted[mark.block_end + 1].result = mark.else_end
                         /\ mark.block_end < mark.else_end
                         /\ mark.else_end <= Len(Emitted)
                    ELSE /\ gotof.result = mark.block_end
                         /\ mark.block_end <= Len(Emitted)
      /\ Generated =>
           \A i \in Gotofs :
             \E k \in Ifs \cup Whiles :
               /\ Marks[k].gotof_index = i - 1
               /\ \A j \in Ifs \cup Whiles : Marks[j].gotof_index = i - 1 => j = k

\* A program was generated with an if-else inside a while inside a while,
\* and with an if-else and a while inside the blocks of an if-else.
C26_Witness ==
    /\ Generated
    /\ \E i \in Ifs, j, k \in Whiles :
         /\ Marks[i].has_else
         /\ Within(i, j)
         /\ Within(j, k)
    /\ \E i, j \in Ifs, k \in Whiles :
         /\ Marks[i].has_else /\ Marks[j].has_else
         /\ Within(i, j)
         /\ Marks[j].block_end < Marks[k].start
         /\ Marks[k].block_end < Marks[j].else_end

\* C27: for every while statement lowered, the quadruple after its body is
\* a GOTO whose result is the queue length before the condition was
\* lowered, its GOTOF has the index right after that GOTO as result, and
\* the quadruple that computes the operand the GOTOF tests lies between the
\* target of the GOTO and the GOTOF, so that the jump back evaluates the
\* condition again.
C27_WhileJumpsBackToCondition ==
    GenerationEnded =>
      \A k \in Whiles :
        LET mark == Marks[k]
            gotof == Emitted[mark.gotof_index + 1]
            back == Emitted[mark.block_end + 1]
        IN  /\ gotof.operator = "GOTOF"
            /\ back.operator = "GOTO"
            /\ back.result = mark.start
            /\ gotof.result = mark.block_end + 1
            /\ mark.start < mark.gotof_index
            /\ mark.gotof_index < mark.block_end
            /\ Emitted[mark.gotof_index].result = gotof.left_operand

\* A program was generated with a while that follows other statements of
\* the main body and holds a while that holds an if-else.
C27_Witness ==
    /\ Generated
    /\ \E i \in Ifs, j, k \in Whiles :
         /\ Within(i, j)
         /\ Within(j, k)
         /\ Marks[j].start # Marks[k].start
         /\ Emitted[Marks[k].start].operator = "ASSIGN"

-----------------------------------------------------------------------------
(* Properties of calls in expressions *)

\* The calls lowered inside expressions so far.
ExpressionCalls == {k \in DOMAIN Marks : Marks[k].kind = "call"}

\* The callee of the GOSUB at position i hands its first argument back:
\* its body starts with the ASSIGN of a return statement that copies its
\* first parameter to its return slot.
ReturnsItsArgument(i) ==
    LET function_name == Emitted[i].left_operand
        function_info == get_function(function_directory, function_name)
        first == Emitted[Emitted[i].result + 1]
    IN  /\ Len(function_info.parameter_list) = 1
        /\ first.operator = "ASSIGN"
        /\ first.left_operand = function_info.parameter_list[1].virtual_address
        /\ first.result = get_function_return_address(virtual_memory, function_name)

\* The positions of the quadruples that take the temporaries of two calls
\* of one function as their operands.
Consumers(first, second) ==
    {q \in DOMAIN Emitted :
        /\ Emitted[q].operator \notin {"BEGINFUNC", "ENDFUNC", "ERA", "GOSUB"}
        /\ Emitted[q].left_operand = Marks[first].returned.address
        /\ Emitted[q].right_operand = Marks[second].returned.address}

\* C28: for every call of a function lowered inside an expression, the
\* quadruple right after its GOSUB is an ASSIGN from the return slot of the
\* callee to the address the call returned, a temporary of the return type
\* that no other quadruple writes; and when the machine reaches the
\* quadruple that consumes the temporaries of two calls of a function that
\* returns its argument, each temporary holds the argument of its own call.
C28_CallResultCopiedToOwnTemporary ==
    /\ GenerationEnded =>
         \A k \in ExpressionCalls :
           LET mark == Marks[k]
               function_info == get_function(function_directory, mark.function_name)
               gosub == Emitted[mark.gosub_index + 1]
               copy == Emitted[mark.gosub_index + 2]
           IN  /\ gosub.operator = "GOSUB"
               /\ gosub.left_operand = mark.function_name
               /\ mark.gosub_index + 2 <= Len(Emitted)
               /\ copy.operator = "ASSIGN"
               /\ copy.left_operand = get_function_return_address(
                                          generator.virtual_memory, mark.function_name)
               /\ copy.result = mark.returned.address
               /\ mark.returned.result_type = function_info.return_type
               /\ decode_address(copy.result).segment = "TEMP"
               /\ decode_address(copy.result).type = function_info.return_type
               /\ \A i \in DOMAIN Emitted :
                    i # mark.gosub_index + 2 => Emitted[i].result # copy.result
    /\ (phase = "run" /\ vm_error = "none") =>
         \A first, second \in ExpressionCalls :
           (/\ Marks[first].gosub_index < Marks[second].gosub_index
            /\ ip + 1 \in Consumers(first, second)
            /\ ReturnsItsArgument(Marks[first].gosub_index + 1)
            /\ Marks[first].function_name = Marks[second].function_name)
             => /\ read(memory, Marks[first].returned.address)
                     = read(memory, Emitted[Marks[first].gosub_index].left_operand)
                /\ read(memory, Marks[second].returned.address)
                     = read(memory, Emitted[Marks[second].gosub_index].left_operand)

\* The machine ran g(1) + g(2) for a g that returns its argument and is at
\* the addition: the two temporaries hold 1 and 2.
C28_Witness ==
    /\ phase = "run"
    /\ vm_error = "none"
    /\ \E first, second \in ExpressionCalls :
         /\ Marks[first].gosub_index < Marks[second].gosub_index
         /\ ip + 1 \in Consumers(first, second)
         /\ ReturnsItsArgument(Marks[first].gosub_index + 1)
         /\ read(memory, Marks[first].returned.address)
              = [ok |-> TRUE, error |-> "none", value |-> 1]
         /\ read(memory, Marks[second].returned.address)
              = [ok |-> TRUE, error |-> "none", value |-> 2]

-----------------------------------------------------------------------------
(* Properties of the checks of a call *)

\* SemanticError and the subclasses of it a call raises.
SemanticErrors == {"SemanticError", "InvalidTypeError", "UnknownFunctionError"}

\* The calls that raised; generation ends at the first.
FailedCalls == {k \in DOMAIN Marks : Marks[k].kind = "failed call"}

Positions(operator) == {i \in DOMAIN Emitted : Emitted[i].operator = operator}

\* The GOSUB at position i closes the group of a call the checks accept:
\* the callee is declared, the group holds one PARAM per parameter and
\* each argument may be assigned to its parameter.
AcceptedCall(i) ==
    LET function_name == Emitted[i].left_operand
        parameter_list == get_function(function_directory, function_name).parameter_list
        n == Len(parameter_list)
    IN  /\ HasFunction(function_directory, function_name)
        /\ i - n - 1 >= 1
        /\ Emitted[i - n - 1].operator = "ERA"
        /\ Emitted[i - n - 1].left_operand = function_name
        /\ \A k \in 1..n :
             /\ Emitted[i - n - 1 + k].operator = "PARAM"
             /\ assert_assign(parameter_list[k].var_type,
                              decode_address(Emitted[i - n - 1 + k].left_operand).type)

\* C30: when a call raises for an unknown callee, a wrong number of
\* arguments, an argument that cannot be assigned to its parameter or a
\* VOID callee in an expression, the exception is a SemanticError, the
\* queue ends where the lowering of the call's arguments ended, every GOSUB
\* appended since the call was entered belongs to a call of its arguments
\* and the queue holds as many ERA as GOSUB quadruples; and in a generated
\* program every GOSUB closes the group of an accepted call and no call in
\* an expression has a VOID callee.
C30_RejectedCallAppendsNothing ==
    /\ phase = "failed" =>
         \A k \in FailedCalls :
           LET mark == Marks[k]
           IN  /\ k = Len(Marks)
               /\ generator.error = mark.exception
               /\ mark.exception \in SemanticErrors
               /\ mark.start <= mark.args_end
               /\ Len(Emitted) = mark.args_end
               /\ \A i \in (mark.start + 1)..Len(Emitted) :
                    Emitted[i].operator = "GOSUB" =>
                      \E c \in ExpressionCalls : Marks[c].gosub_index = i - 1
               /\ Cardinality(Positions("ERA")) = Cardinality(Positions("GOSUB"))
    /\ Generated =>
         /\ \A i \in Positions("GOSUB") : AcceptedCall(i)
         /\ \A c \in ExpressionCalls :
              get_function(function_directory, Marks[c].function_name).return_type # VOID

\* The call f(g()) raised because the FLOAT that g returns cannot be
\* assigned to the INT parameter of f: the queue ends with the group of g
\* and the copy of its result.
C30_Witness ==
    /\ phase = "failed"
    /\ \E k \in FailedCalls :
         /\ Marks[k].function_name = "f"
         /\ Marks[k].exception = "InvalidTypeError"
         /\ Marks[k].start < Marks[k].args_end
         /\ Emitted[Len(Emitted)].operator = "ASSIGN"
         /\ Emitted[Len(Emitted) - 1].operator = "GOSUB"

-----------------------------------------------------------------------------
(* Properties of the checks of a return *)

\* The return statements lowered so far.
ReturnStatements == {k \in DOMAIN Marks : Marks[k].kind = "return"}

\* A return with an expression of expr_type (NoName without one) is one
\* the function may make.
Acceptable(function_name, expr_type) ==
    LET return_type == get_function(function_directory, function_name).return_type
    IN  IF return_type = VOID THEN expr_type = NoName
        ELSE expr_type # NoName /\ assert_assign(return_type, expr_type)

\* C31: a return statement inside a function is accepted exactly when a
\* VOID function returns no expression or a typed function returns an
\* expression assignable to its return type; an accepted return appends the
\* ASSIGN to the return slot (typed) and the exit GOTO; a rejected one ends
\* the generation with the queue as the lowering of its expression left
\* it, and with MissingReturnValue when a typed function returns no value.
C31_ReturnChecked ==
    GenerationEnded =>
      \A k \in ReturnStatements :
        LET mark == Marks[k]
            function_info == get_function(function_directory, mark.function_name)
            typed == function_info.return_type # VOID
        IN  mark.function_name # NoName =>
              /\ mark.accepted <=> Acceptable(mark.function_name, mark.expr_type)
              /\ mark.accepted =>
                   /\ Emitted[mark.expr_end + (IF typed THEN 2 ELSE 1)].operator = "GOTO"
                   /\ typed =>
                        /\ Emitted[mark.expr_end + 1].operator = "ASSIGN"
                        /\ Emitted[mark.expr_end + 1].result
                             = get_function_return_address(generator.virtual_memory,
                                                           mark.function_name)
              /\ ~mark.accepted =>
                   /\ phase = "failed"
                   /\ k = Len(Marks)
                   /\ Len(Emitted) = mark.expr_end
                   /\ generator.error # "none"
                   /\ (typed /\ mark.expr_type = NoName)
                        <=> generator.error = "MissingReturnValue"

\* The typed g returned the FLOAT r where an INT is due: the generation
\* failed after the assignment to r, with no ASSIGN to the slot and no GOTO.
C31_Witness ==
    /\ phase = "failed"
    /\ \E k \in ReturnStatements :
         /\ Marks[k].function_name = "g"
         /\ Marks[k].expr_type = FLOAT
         /\ ~Marks[k].accepted
         /\ Emitted[Len(Emitted)].operator = "ASSIGN"
         /\ decode_address(Emitted[Len(Emitted)].result).segment = "LOCAL"

\* The queue of length n ends outside every function: each BEGINFUNC in
\* it has its ENDFUNC.
OutsideFunctions(n) ==
    Cardinality({i \in 1..n : Emitted[i].operator = "BEGINFUNC"})
      = Cardinality({i \in 1..n : Emitted[i].operator = "ENDFUNC"})

\* C32: a return statement is lowered with no current function exactly
\* when the queue stands outside every function, that is in the main body,
\* the functions before it generated or not; such a return ends the
\* generation with a SemanticError and appends no quadruple.
C32_ReturnInMainBodyRejected ==
    GenerationEnded =>
      \A k \in ReturnStatements :
        LET mark == Marks[k]
        IN  /\ OutsideFunctions(mark.expr_end) <=> mark.function_name = NoName
            /\ mark.function_name = NoName =>
                 /\ ~mark.accepted
                 /\ phase = "failed"
                 /\ generator.error = "SemanticError"
                 /\ k = Len(Marks)
                 /\ Len(Emitted) = mark.expr_end

\* The main body, lowered after the functions f and g, returned inside an
\* if: the generation failed with the GOTOF of the if as last quadruple.
C32_Witness ==
    /\ phase = "failed"
    /\ generator.error = "SemanticError"
    /\ \E k \in ReturnStatements :
         /\ Marks[k].function_name = NoName
         /\ Emitted[Len(Emitted)].operator = "GOTOF"
         /\ Cardinality(Positions("ENDFUNC")) = 2

-----------------------------------------------------------------------------
(* Properties of the order of the operations of an expression *)

AdditiveNames == {"MAS", "MENOS", "PLUS", "MINUS"}

MultiplicativeNames == {"POR", "ENTRE", "STAR", "SLASH"}

RelationalNames == {"MAYOR", "MENOR", "DIFERENTE", "IGUAL",
                    "GREATER", "LESS", "NOTEQUAL", "EQUAL"}

BinaryNames == AdditiveNames \cup MultiplicativeNames \cup RelationalNames

\* The program whose functions are the plain f and g and whose main body
\* is the given statements.
MainIs(main) ==
    program_tree = ProgramTree(Program(<< INT >>, << FLOAT >>, INT,
                                       << "m=1" >>, << "return 1" >>, main))

\* The position of the first quadruple of the main body.
MainStart ==
    LET ends == {0} \cup {i \in DOMAIN Emitted : Emitted[i].operator = "ENDFUNC"}
    IN  1 + CHOOSE last \in ends : \A i \in ends : i <= last

\* The pipeline has nothing left to do.
PipelineEnded == phase = "failed" \/ (phase = "run" /\ ~Running)

\* The operators at the positions from MainStart on, and the operand of
\* each that is the result of the one before.
OperatorsFromMain(names) ==
    /\ MainStart + Len(names) - 1 <= Len(Emitted)
    /\ \A k \in DOMAIN names : Emitted[MainStart + k - 1].operator = names[k]

\* Every operand of a binary operation that is a temporary was written by
\* a quadruple emitted before the operation.
OperandsEmittedFirst ==
    \A i \in DOMAIN Emitted :
      Emitted[i].operator \in BinaryNames =>
        \A operand \in {Emitted[i].left_operand, Emitted[i].right_operand} :
          decode_address(operand).segment = "TEMP" =>
            \E j \in 1..(i - 1) :
              /\ Emitted[j].operator \notin Jumps
              /\ Emitted[j].result = operand

\* The order of the quadruples of the expressions of the main body.
OrderOfOperations ==
    Generated =>
      /\ OperandsEmittedFirst
      /\ MainIs(<< "x=1 PLUS 2 STAR 3" >>) =>
           /\ OperatorsFromMain(<< "STAR", "PLUS", "ASSIGN" >>)
           /\ Emitted[MainStart + 1].right_operand = Emitted[MainStart].result
           /\ Emitted[MainStart + 2].left_operand = Emitted[MainStart + 1].result
      /\ MainIs(<< "x=(1+2)*3" >>) =>
           /\ OperatorsFromMain(<< "PLUS", "STAR", "ASSIGN" >>)
           /\ Emitted[MainStart + 1].left_operand = Emitted[MainStart].result
      /\ MainIs(<< "x=3-2-1" >>) =>
           /\ OperatorsFromMain(<< "MINUS", "MINUS", "ASSIGN" >>)
           /\ Emitted[MainStart + 1].left_operand = Emitted[MainStart].result
           /\ decode_address(Emitted[MainStart].left_operand).segment = "CONSTANT"
           /\ decode_address(Emitted[MainStart].right_operand).segment = "CONSTANT"
      /\ MainIs(<< "if 1+2<3*1" >>) =>
           /\ OperatorsFromMain(<< "PLUS", "STAR", "LESS", "GOTOF" >>)
           /\ Emitted[MainStart + 2].left_operand = Emitted[MainStart].result
           /\ Emitted[MainStart + 2].right_operand = Emitted[MainStart + 1].result

\* The program of x = 1 + 2 * 3; print(x); with the operators under the
\* token types of the generator or under the names of the semantic cube.
OnePlusTwoTimesThree ==
    \/ MainIs(<< "x=1+2*3", "print x" >>)
    \/ MainIs(<< "x=1 PLUS 2 STAR 3", "print x" >>)

\* C29: in a generated program every temporary operand of an operation is
\* written by an earlier quadruple; 1 + 2 * 3 gives the multiplication and
\* then the addition of its result, (1 + 2) * 3 the addition and then the
\* multiplication, 3 - 2 - 1 the left subtraction first, 1 + 2 < 3 * 1 the
\* addition, the multiplication and then the comparison; and the program
\* x = 1 + 2 * 3; print(x); ends having printed 7.
C29_OperationsInPriorityOrder ==
    /\ OrderOfOperations
    /\ (OnePlusTwoTimesThree /\ PipelineEnded) => output = << "7" >>

-----------------------------------------------------------------------------
(* Properties of a division by zero *)

\* The program y = 1 / 0; with the division under the token type of the
\* generator or under the name of the semantic cube.
DividesByZero == MainIs(<< "y=1/0" >>) \/ MainIs(<< "y=1 SLASH 0" >>)

\* The machine stopped on the division quadruple at position i, whose
\* right operand reads 0: ZeroDivisionError, ip still on it, its result
\* address never written.
StoppedOnDivision(i) ==
    /\ vm_error = "ZeroDivisionError"
    /\ ip = i - 1
    /\ read(memory, quadruples[i].right_operand).ok
    /\ read(memory, quadruples[i].right_operand).value = 0
    /\ ~read(memory, quadruples[i].result).ok

\* C33: the program y = 1 / 0; is generated, and its run ends on the
\* division quadruple, the first of the main body, with a division-by-zero
\* error, nothing written to the result address, ip not advanced and
\* nothing printed.
C33_DivisionByZeroAtRunTime ==
    (DividesByZero /\ PipelineEnded) =>
      /\ phase = "run"
      /\ StoppedOnDivision(MainStart)
      /\ output = << >>

\* On a machine given its quadruples by hand: the step that executes an
\* ENTRE whose right operand reads 0 raises ZeroDivisionError and changes
\* nothing else, and a machine with an error makes no step.
DivisionByZeroStops ==
    [][/\ (Running /\ CurrentQuad.operator = "ENTRE"
            /\ read(memory, CurrentQuad.right_operand).ok
            /\ read(memory, CurrentQuad.left_operand).ok
            /\ read(memory, CurrentQuad.right_operand).value = 0)
           => /\ vm_error' = "ZeroDivisionError"
              /\ UNCHANGED << memory, ip, halted, return_address_stack,
                              pending_frame, output >>
        /\ vm_error = "none"]_vars

-----------------------------------------------------------------------------
(* Properties of a call whose target was never set *)

\* The machine is about to execute a GOSUB whose result is unset.
AtDanglingGosub ==
    /\ Running
    /\ CurrentQuad.operator = "GOSUB"
    /\ CurrentQuad.result = None

\* C35: a GOSUB whose result was never patched ends the run with an error:
\* the step that executes it leaves the machine with an error, and a
\* machine with an error executes no quadruple.
C35_DanglingGosubStops ==
    [][/\ vm_error = "none"
       /\ AtDanglingGosub => vm_error' # "none"]_vars

\* run() has raised on the ip an activated call with an unset target left.
C35_Witness ==
    /\ vm_error = "TypeError"
    /\ ip = None
    /\ Len(memory.call_stack) = 2
    /\ quadruples[Last(return_address_stack)].operator = "GOSUB"
    /\ quadruples[Last(return_address_stack)].result = None

-----------------------------------------------------------------------------
(* Properties of the function bodies laid out before the main body *)

\* The indices of the quadruples of an operator.
IndicesOf(operator) ==
    {i \in 0..(Len(quadruples) - 1) : quadruples[i + 1].operator = operator}

\* The index of the ENDFUNC of the function whose BEGINFUNC is at index b:
\* the first ENDFUNC after b that names it.
ClosingEndfunc(b) ==
    LET closing == {e \in IndicesOf("ENDFUNC") :
                       e > b /\ quadruples[e + 1].left_operand = quadruples[b + 1].left_operand}
    IN  CHOOSE e \in closing : \A other \in closing : e <= other

Closed(b) ==
    \E e \in IndicesOf("ENDFUNC") :
        e > b /\ quadruples[e + 1].left_operand = quadruples[b + 1].left_operand

\* Index i lies strictly between a BEGINFUNC and its ENDFUNC.
InsideFunction(i) ==
    \E b \in IndicesOf("BEGINFUNC") : Closed(b) /\ b < i /\ i < ClosingEndfunc(b)

\* The index of the first quadruple of the main body: just after the last
\* ENDFUNC.
MainIndex ==
    IF IndicesOf("ENDFUNC") = {}
      THEN 0
      ELSE 1 + CHOOSE e \in IndicesOf("ENDFUNC") : \A other \in IndicesOf("ENDFUNC") : other <= e

AtMainDepth == Len(memory.call_stack) = 1

\* A BEGINFUNC executed with only the main frame moves ip just after the
\* function's ENDFUNC and changes nothing else.
BeginfuncSkipsBody ==
    (Running /\ AtMainDepth /\ CurrentQuad.operator = "BEGINFUNC")
      => /\ ip' = ClosingEndfunc(ip) + 1
         /\ ip' <= MainIndex
         /\ vm_error' = "none"
         /\ UNCHANGED << memory, halted, return_address_stack, pending_frame, output >>

\* With only the main frame, the machine is on a BEGINFUNC or in the main
\* body.
MainDepthOutsideBodies ==
    (Running /\ AtMainDepth)
      => /\ ~InsideFunction(ip)
         /\ ip < MainIndex => CurrentQuad.operator = "BEGINFUNC"

\* C36: in a generated program a BEGINFUNC reached with only the main frame
\* on the call stack moves ip just after the function's ENDFUNC and changes
\* nothing else; no quadruple strictly between a BEGINFUNC and its ENDFUNC
\* is executed at call stack depth 1, and the first quadruple executed
\* outside the function bodies is the first of the main body.
C36_BodiesSkippedAtMainDepth ==
    [][/\ BeginfuncSkipsBody
       /\ MainDepthOutsideBodies
       /\ MainDepthOutsideBodies']_vars

\* run() has skipped two bodies that hold quadruples and stands on the
\* first quadruple of the main body, nothing executed yet.
C36_Witness ==
    /\ Running
    /\ AtMainDepth
    /\ ip = MainIndex
    /\ Cardinality(IndicesOf("BEGINFUNC")) = 2
    /\ \A b \in IndicesOf("BEGINFUNC") : ClosingEndfunc(b) > b + 1
    /\ output = << >>
    /\ return_address_stack = << >>

-----------------------------------------------------------------------------
(* Properties of PARAM and GOSUB without a pending frame *)

\* The machine is about to execute a PARAM or a GOSUB and no ERA has
\* prepared a frame since construction or since the last GOSUB.
AtCallStepWithoutEra ==
    /\ Running
    /\ CurrentQuad.operator \in {"PARAM", "GOSUB"}
    /\ pending_frame = << >>

\* C37: a PARAM or a GOSUB executed while no pending frame exists fails
\* with a run-time error and leaves ip, the call stack, the return-address
\* stack and the memory unchanged.
C37_NoPendingFrameFails ==
    [][AtCallStepWithoutEra
         => /\ vm_error' = "RuntimeError"
            /\ UNCHANGED << ip, memory, return_address_stack, pending_frame,
                            halted, output >>]_vars

\* A PARAM or a GOSUB right after a call that has returned has failed: the
\* GOSUB of that call consumed the frame of the only ERA.
C37_Witness ==
    /\ vm_error = "RuntimeError"
    /\ ip > 0
    /\ ip < Len(quadruples)
    /\ CurrentQuad.operator \in {"PARAM", "GOSUB"}
    /\ quadruples[ip].operator = "GOSUB"
    /\ pending_frame = << >>
    /\ Len(memory.call_stack) = 1

-----------------------------------------------------------------------------
(* Properties of the two stacks of the machine *)

Frames == Len(memory.call_stack)

Addresses == Len(return_address_stack)

StepOf(operator) == Running /\ CurrentQuad.operator = operator

\* A step changes the height of neither stack, or it is a GOSUB and both
\* grow by one, or it is an ENDFUNC and both shrink by one.
StacksMoveTogether ==
    \/ /\ Len(memory'.call_stack) = Frames
       /\ Len(return_address_stack') = Addresses
    \/ /\ StepOf("GOSUB")
       /\ Len(memory'.call_stack) = Frames + 1
       /\ Len(return_address_stack') = Addresses + 1
    \/ /\ StepOf("ENDFUNC")
       /\ Len(memory'.call_stack) = Frames - 1
       /\ Len(return_address_stack') = Addresses - 1

\* C38: while run() executes a program on a machine and a memory just
\* constructed, the call stack holds one frame more than the return-address
\* stack holds addresses; only a GOSUB grows either stack and it grows both,
\* only an ENDFUNC shrinks either and it shrinks both.
C38_OneFrameMoreThanReturnAddresses ==
    /\ [](Frames = Addresses + 1)
    /\ [][StacksMoveTogether]_vars

\* A call made from inside a call has returned: both stacks grew twice and
\* shrank once.
C38_Witness ==
    /\ Frames = 2
    /\ Addresses = 1
    /\ Len(calls) = 1
    /\ ip > 0
    /\ quadruples[ip].operator = "GOSUB"
    /\ vm_error = "none"

-----------------------------------------------------------------------------
(* Properties of the addresses of the declared entities *)

Entity(kind, function_name, name, address) ==
    [kind |-> kind, function_name |-> function_name, name |-> name, address |-> address]

\* The entries of a variable table as entities of a function (NoName for
\* the globals).
EntitiesOf(kind, function_name, table) ==
    {Entity(kind, function_name, table[i].name, table[i].virtual_address) :
        i \in DOMAIN table}

\* The declared entities that have an address: globals, the locals and
\* parameters of every function, and the return slots.  A parameter_list
\* entry and the local of its name are one entity.
DeclaredEntities(directory, vmem) ==
    LET all == EntitiesOf("global", NoName, directory.global_variables)
                 \cup UNION {EntitiesOf("local", directory.functions[i].name,
                                        directory.functions[i].local_variables)
                               \cup EntitiesOf("local", directory.functions[i].name,
                                               directory.functions[i].parameter_list) :
                               i \in DOMAIN directory.functions}
                 \cup {Entity("return", vmem.function_return_addresses[i].name, NoName,
                              vmem.function_return_addresses[i].address) :
                          i \in DOMAIN vmem.function_return_addresses}
    IN  {e \in all : e.address # None}

SameEntity(a, b) ==
    /\ a.kind = b.kind
    /\ a.function_name = b.function_name
    /\ a.name = b.name

PairwiseDifferent(entities) ==
    \A a, b \in entities : a.address = b.address => SameEntity(a, b)

\* The temporaries the allocator has handed out.
Temporaries(vmem) ==
    {a \in TEMP_INT_START..(vmem.counters["temp_int"] - 1) : TRUE}
      \cup {a \in TEMP_FLOAT_START..(vmem.counters["temp_float"] - 1) : TRUE}
      \cup {a \in TEMP_BOOL_START..(vmem.counters["temp_bool"] - 1) : TRUE}

AddressesOf(entities) == {e.address : e \in entities}

\* C39: after assign_variable_addresses no two distinct declared entities
\* share an address, over the globals, the locals and parameters of all the
\* functions and the return slots, and no temporary the generator allocates
\* afterwards is the address of one of them.
C39_DeclaredAddressesDistinct ==
    phase # "assign"
      => /\ PairwiseDifferent(DeclaredEntities(function_directory, virtual_memory))
         /\ Temporaries(virtual_memory)
               \cap AddressesOf(DeclaredEntities(function_directory, virtual_memory)) = {}

\* Generation has ended on a directory with globals, locals in two
\* functions and a return slot, and has allocated temporaries.
C39_Witness ==
    /\ phase = "load"
    /\ Temporaries(virtual_memory) # {}
    /\ LET entities == DeclaredEntities(function_directory, virtual_memory)
       IN  /\ \E e \in entities : e.kind = "return"
           /\ \E e \in entities : e.kind = "global"
           /\ Cardinality({e.function_name : e \in {l \in entities : l.kind = "local"}}) >= 2
           /\ Cardinality(AddressesOf(entities)) >= 6

\* The same on the directories of the directory client, whose passes can be
\* followed by more declarations and more passes.
DeclaredAddressesDistinctInDirectory ==
    PairwiseDifferent(DeclaredEntities(function_directory, virtual_memory))

-----------------------------------------------------------------------------
(* Properties of the constants *)

\* The operators whose result field is not an address: a jump index, a
\* parameter position or nothing.
ResultNotAddress == {"GOTO", "GOTOF", "GOSUB", "PARAM", "BEGINFUNC", "ENDFUNC", "ERA", "PRINT"}

InConstantSegment(a) == decode_address(a).ok /\ decode_address(a).segment = "CONSTANT"

\* The result of an emitted quadruple that is an address is a temporary, a
\* declared variable or a return slot, and no constant.
ResultsOutsideConstants ==
    \A i \in DOMAIN Emitted :
        Emitted[i].operator \notin ResultNotAddress
          => /\ ~InConstantSegment(Emitted[i].result)
             /\ Emitted[i].result
                   \in Temporaries(virtual_memory)
                         \cup AddressesOf(DeclaredEntities(function_directory, virtual_memory))

InternedAddresses ==
    {virtual_memory.constant_table[i].address : i \in DOMAIN virtual_memory.constant_table}

-----------------------------------------------------------------------------
(* Properties of reads and writes of the memory on its own *)

MaxWrites == 3

MaxStoreDepth == 2

\* The addresses the client of the memory reads and writes: two globals, a
\* loaded and an unloaded constant, three locals and a temporary.
StoreAddresses == {X, X + 1, K(3), K(4), FM, GA, GB, TI}

StoreValues == {1, 2}

StoreFrameNames == {"f", "g"}

\* The log of the client: the last value written at each address of the
\* shared segments and of each frame of the call stack.
StoreLog(shared, frames, writes) ==
    [shared |-> shared, frames |-> frames, writes |-> writes]

\* The integer constants load_constants has written.
Loaded(constant_table) ==
    {<< constant_table[i].address, ParseNumber(constant_table[i].literal_value) >> :
        i \in {j \in DOMAIN constant_table : constant_table[j].const_type = INT}}

InShared(a) == decode_address(a).segment \in {"GLOBAL", "CONSTANT"}

Logged(log, a, v) ==
    LET put(s) == {p \in s : p[1] # a} \cup {<< a, v >>}
    IN  IF InShared(a)
          THEN [log EXCEPT !.shared = put(@), !.writes = @ + 1]
          ELSE [log EXCEPT !.frames[Len(log.frames)] = put(@), !.writes = @ + 1]

InitStore ==
    /\ function_directory = HandAssigned.function_directory
    /\ virtual_memory = HandVirtualMemory
    /\ program_tree = << >>
    /\ generator = << >>
    /\ phase = "run"
    /\ quadruples = << >>
    /\ memory = load_constants(ExecutionMemory, HandVirtualMemory.constant_table).memory
    /\ ip = 0
    /\ halted = FALSE
    /\ return_address_stack = << >>
    /\ pending_frame = << >>
    /\ output = << >>
    /\ vm_error = "none"
    /\ calls = StoreLog(Loaded(HandVirtualMemory.constant_table), << {} >>, 0)

\* memory.write(a, v): a write that raises leaves the memory as it was.
StoreWrite ==
    /\ calls.writes < MaxWrites
    /\ \E a \in StoreAddresses, v \in StoreValues :
         LET written == write(memory, a, v)
         IN  /\ memory' = written.memory
             /\ calls' = IF written.ok THEN Logged(calls, a, v) ELSE calls
             /\ output' = << [operation |-> "write", address |-> a,
                              ok |-> written.ok, value |-> v] >>
    /\ UNCHANGED << ip, halted, return_address_stack, pending_frame, vm_error >>
    /\ Fixed

\* memory.read(a): the client keeps what the read returned.
StoreRead ==
    /\ \E a \in StoreAddresses :
         LET got == read(memory, a)
         IN  output' = << [operation |-> "read", address |-> a,
                           ok |-> got.ok, value |-> got.value] >>
    /\ UNCHANGED << memory, ip, halted, return_address_stack, pending_frame,
                    vm_error, calls >>
    /\ Fixed

StorePush ==
    /\ Len(memory.call_stack) < MaxStoreDepth
    /\ \E function_name \in StoreFrameNames :
         memory' = push_frame(memory, ClientFrame(function_name))
    /\ calls' = [calls EXCEPT !.frames = Append(@, {})]
    /\ output' = << >>
    /\ UNCHANGED << ip, halted, return_address_stack, pending_frame, vm_error >>
    /\ Fixed

StorePop ==
    /\ pop_frame(memory).ok
    /\ memory' = pop_frame(memory).memory
    /\ calls' = [calls EXCEPT !.frames = Front(@)]
    /\ output' = << >>
    /\ UNCHANGED << ip, halted, return_address_stack, pending_frame, vm_error >>
    /\ Fixed

NextStore ==
    \/ StoreWrite
    \/ StoreRead
    \/ StorePush
    \/ StorePop

SpecStore == InitStore /\ [][NextStore]_vars

\* The last values written in the array that address a resolves to.
Scope(a) == IF InShared(a) THEN calls.shared ELSE Last(calls.frames)

SameArray(a, b) ==
    /\ decode_address(a).segment = decode_address(b).segment
    /\ decode_address(a).type = decode_address(b).type

\* The offset of a in the array it resolves to, the frame base taken off.
Adjusted(a) ==
    StorageList(memory, decode_address(a).segment, decode_address(a).type,
                decode_address(a).offset).offset

\* The array of a has been extended to cover a's offset: a or an address of
\* the same array at a higher offset has been written.
Covered(a) ==
    /\ Adjusted(a) >= 0
    /\ \E p \in Scope(a) : SameArray(a, p[1]) /\ Adjusted(p[1]) >= Adjusted(a)

WrittenAt(a) == \E p \in Scope(a) : p[1] = a

LastWritten(a) == (CHOOSE p \in Scope(a) : p[1] = a)[2]

LastRead == output[1]

\* C34: read(a) fails exactly when the typed array a resolves to has not
\* been extended to cover a's offset; otherwise it returns the value last
\* written at a, or the zero of the type when the slot is only padding
\* under a write at a higher offset.
C34_ReadReturnsLastWritten ==
    (output # << >> /\ LastRead.operation = "read")
      => /\ LastRead.ok <=> Covered(LastRead.address)
         /\ LastRead.ok
              => LastRead.value
                   = IF WrittenAt(LastRead.address)
                       THEN LastWritten(LastRead.address)
                       ELSE TypeDefault(decode_address(LastRead.address).type)

\* The same rule in a frame whose base is zero, where no adjusted offset is
\* negative.
ReadReturnsLastWrittenAtBaseZero ==
    (\A i \in DOMAIN memory.call_stack :
        memory.call_stack[i].function_name \in {"__main__", "f"})
      => C34_ReadReturnsLastWritten

-----------------------------------------------------------------------------
(* Properties of the type rules *)

\* The token types of the binary operators, as the docstrings of
\* _generate_exp_simple, _generate_termino and _generate_expresion name
\* them; the generator passes token.type to _emit_binary_operation.
AdditiveTokens == {"MAS", "MENOS"}

MultiplicativeTokens == {"POR", "ENTRE"}

RelationalTokens == {"MAYOR", "MENOR", "DIFERENTE", "IGUAL"}

\* The type the rules give a binary operation on INT and FLOAT operands.
RuleType(operator, left_type, right_type) ==
    IF operator \in RelationalTokens THEN BOOL
    ELSE IF operator = "ENTRE" THEN FLOAT
    ELSE IF left_type = INT /\ right_type = INT THEN INT
    ELSE FLOAT

\* C14: for every binary operation the generator lowers (additive,
\* multiplicative or relational) on operands of types in {INT, FLOAT}, the
\* operator name passed to result_type is accepted by the semantic cube, a
\* temporary of the result type is allocated and exactly one quadruple
\* (op, left, right, temp) is appended.
C14_BinaryOperationEmitsOneQuadruple ==
    Generated =>
      \A operator \in AdditiveTokens \cup MultiplicativeTokens \cup RelationalTokens,
         left_type \in {INT, FLOAT}, right_type \in {INT, FLOAT} :
        LET left == ExpressionResult(
                        IF left_type = INT THEN GLOBAL_INT_START ELSE GLOBAL_FLOAT_START,
                        left_type)
            right == ExpressionResult(
                         IF right_type = INT THEN GLOBAL_INT_START ELSE GLOBAL_FLOAT_START,
                         right_type)
            lowered == emit_binary_operation(generator, operator, left, right)
            wanted == allocate_temporary(generator.virtual_memory,
                                         RuleType(operator, left_type, right_type))
        IN  /\ result_type(operator, left_type, right_type).ok
            /\ lowered.error = "none"
            /\ lowered.virtual_memory = wanted.virtual_memory
            /\ lowered.context.quadruples
                 = Append(generator.context.quadruples,
                          Quadruple(operator, left.address, right.address, wanted.address))

-----------------------------------------------------------------------------
(* The type rules on their own: result_type and assert_assign applied to
   every operator spelling and every pair of types, and _generate_asignacion
   applied to a single assignment over the globals x: INT and y: FLOAT.
   Each application is recorded in calls. *)

TypeNames == {INT, FLOAT, BOOL, VOID}

\* The symbols, the names the cube is keyed by, the token names of the
\* grammar, and operators the language does not have.
OperatorSymbols == DOMAIN OPERATOR_ALIASES

OperatorNames == {OPERATOR_ALIASES[symbol] : symbol \in OperatorSymbols}

OtherOperators == {"MAS", "MENOS", "POR", "ENTRE", "MAYOR", "MENOR", "IGUAL",
                   "DIFERENTE", "%", "<=", ">=", "=", "ASSIGN", "UMINUS"}

TypesDirectory ==
    add_global_variable(
        add_global_variable(FunctionDirectory, "x", INT).directory,
        "y", FLOAT).directory

TypesAssigned == assign_variable_addresses(TypesDirectory, VirtualMemory)

TypesGenerator ==
    ExpressionQuadrupleGenerator(TypesAssigned.function_directory,
                                 TypesAssigned.virtual_memory)

\* Right-hand sides with the type each one has: a literal or a variable.
TypedExpressions ==
    { << One, INT >>,
      << Expresion(Cte("CTE_FLOAT", "2.5")), FLOAT >>,
      << Expresion(Id("x")), INT >>,
      << Expresion(Id("y")), FLOAT >> }

Application(function, operator, left_type, right_type, outcome) ==
    [function |-> function, operator |-> operator, left_type |-> left_type,
     right_type |-> right_type, outcome |-> outcome]

InitTypes ==
    /\ function_directory = TypesAssigned.function_directory
    /\ virtual_memory = TypesAssigned.virtual_memory
    /\ program_tree = << >>
    /\ generator = TypesGenerator
    /\ phase = "types"
    /\ quadruples = << >>
    /\ memory = ExecutionMemory
    /\ ip = 0
    /\ halted = FALSE
    /\ return_address_stack = << >>
    /\ pending_frame = << >>
    /\ output = << >>
    /\ vm_error = "none"
    /\ calls = << >>

TypesFixed == UNCHANGED << function_directory, virtual_memory, quadruples,
                           memory, ip, halted, return_address_stack,
                           pending_frame, output, vm_error >>

ResultType ==
    /\ phase = "types"
    /\ \E operator \in OperatorSymbols \cup OperatorNames \cup OtherOperators,
          left_type \in TypeNames, right_type \in TypeNames :
         calls' = << Application("result_type", operator, left_type, right_type,
                                 result_type(operator, left_type, right_type)) >>
    /\ UNCHANGED << program_tree, generator, phase >>
    /\ TypesFixed

AssertAssign ==
    /\ phase = "types"
    /\ \E left_type \in TypeNames, right_type \in TypeNames :
         calls' = << Application("assert_assign", "=", left_type, right_type,
                                 [ok   |-> assert_assign(left_type, right_type),
                                  type |-> NoName]) >>
    /\ UNCHANGED << program_tree, generator, phase >>
    /\ TypesFixed

\* _generate_asignacion, once, on the fresh generator
LowerAssignment ==
    /\ phase = "types"
    /\ phase' = "lowered"
    /\ \E target \in {"x", "y"}, source \in TypedExpressions :
         LET tree    == Asignacion(target, source[1])
             lowered == generate_asignacion(TypesGenerator, tree)
         IN  /\ program_tree' = tree
             /\ generator' = lowered
             /\ calls' = << Application(
                               "asignacion", "=",
                               lookup_variable(function_directory, target,
                                               NoName).info.var_type,
                               source[2],
                               [ok |-> lowered.error = "none", type |-> NoName]) >>
    /\ TypesFixed

NextTypes ==
    \/ ResultType
    \/ AssertAssign
    \/ LowerAssignment

SpecTypes == InitTypes /\ [][NextTypes]_vars

-----------------------------------------------------------------------------
(* Properties of the type rules on their own *)

Applied(function) ==
    {calls[k] : k \in {j \in DOMAIN calls : calls[j].function = function}}

\* The operator a spelling stands for: the symbol for one of the cube's
\* names, the spelling itself otherwise.
SymbolOf(operator) ==
    IF operator \in OperatorNames
      THEN CHOOSE symbol \in OperatorSymbols : OPERATOR_ALIASES[symbol] = operator
      ELSE operator

\* C15: result_type gives INT for + - * on (INT, INT), FLOAT for + - * with
\* a FLOAT operand, FLOAT for / and BOOL for > < == != on all four pairs of
\* INT and FLOAT; it fails for every pair holding BOOL or VOID and for every
\* operator outside the eight.
C15_ResultTypeTable ==
    \A call \in Applied("result_type") :
        LET symbol == SymbolOf(call.operator)
            pair   == << call.left_type, call.right_type >>
        IN  IF symbol \in {"+", "-", "*", "/", ">", "<", "==", "!="}
               /\ pair \in {INT, FLOAT} \X {INT, FLOAT}
              THEN /\ call.outcome.ok
                   /\ call.outcome.type =
                        (IF symbol \in {">", "<", "==", "!="} THEN BOOL
                         ELSE IF symbol = "/" THEN FLOAT
                         ELSE IF pair = << INT, INT >> THEN INT
                         ELSE FLOAT)
              ELSE ~call.outcome.ok

C15_Witness ==
    calls = << Application("result_type", "/", INT, INT,
                           [ok |-> TRUE, type |-> FLOAT]) >>

AssignQuadruples ==
    {i \in DOMAIN generator.context.quadruples :
        generator.context.quadruples[i].operator = "ASSIGN"}

\* C16: assert_assign succeeds exactly for (INT, INT), (FLOAT, INT) and
\* (FLOAT, FLOAT); an assignment is lowered to one ASSIGN quadruple exactly
\* for those pairs, so an assignment of a FLOAT expression to an INT target
\* fails and appends no ASSIGN quadruple.
C16_AssignmentCompatibility ==
    /\ \A call \in Applied("assert_assign") :
         call.outcome.ok
           <=> << call.left_type, call.right_type >>
                 \in {<< INT, INT >>, << FLOAT, INT >>, << FLOAT, FLOAT >>}
    /\ \A call \in Applied("asignacion") :
         /\ call.outcome.ok
              <=> << call.left_type, call.right_type >>
                    \in {<< INT, INT >>, << FLOAT, INT >>, << FLOAT, FLOAT >>}
         /\ Cardinality(AssignQuadruples) = (IF call.outcome.ok THEN 1 ELSE 0)
         /\ (call.left_type = INT /\ call.right_type = FLOAT)
              => /\ generator.error = "InvalidTypeError"
                 /\ AssignQuadruples = {}

\* x = y has been lowered, with x: INT and y: FLOAT: the assignment is refused.
C16_Witness ==
    /\ phase = "lowered"
    /\ program_tree = Asignacion("x", Expresion(Id("y")))
    /\ calls = << Application("asignacion", "=", INT, FLOAT,
                              [ok |-> FALSE, type |-> NoName]) >>
    /\ generator.error = "InvalidTypeError"

-----------------------------------------------------------------------------
(* Building the directory: the calls the semantic builder makes on the
   FunctionDirectory, in any order and with any outcome, and the address
   assignment pass.  vm_error holds the exception of the last call. *)

DirFunctionNames == {"f", "g"}

DirVariableNames == {"a", "m"}

DeclaredTypes == {INT, FLOAT, BOOL}

ReturnTypes == {INT, FLOAT, VOID}

\* Declarations are made while the directory holds fewer than MaxEntries
\* entries (functions, variables and parameter_list entries).
MaxEntries == 5

RECURSIVE FunctionEntries(_)
FunctionEntries(functions) ==
    IF functions = << >> THEN 0
    ELSE 1 + Len(Head(functions).parameter_list) + Len(Head(functions).local_variables)
           + FunctionEntries(Tail(functions))

Entries(directory) ==
    Len(directory.global_variables) + FunctionEntries(directory.functions)

InitDir ==
    /\ function_directory = FunctionDirectory
    /\ virtual_memory = VirtualMemory
    /\ program_tree = << >>
    /\ generator = << >>
    /\ phase = "declare"
    /\ quadruples = << >>
    /\ memory = ExecutionMemory
    /\ ip = 0
    /\ halted = FALSE
    /\ return_address_stack = << >>
    /\ pending_frame = << >>
    /\ output = << >>
    /\ vm_error = "none"
    /\ calls = << >>

DirFixed == UNCHANGED << program_tree, generator, phase, quadruples, memory, ip,
                         halted, return_address_stack, pending_frame, output,
                         calls >>

Declaring == phase = "declare" /\ Entries(function_directory) < MaxEntries

\* One call on the directory: its outcome is [ok, error, directory].
Declares(outcome) ==
    /\ Declaring
    /\ function_directory' = outcome.directory
    /\ vm_error' = outcome.error
    /\ UNCHANGED virtual_memory
    /\ DirFixed

AddFunction(function_name, return_type) ==
    Declares(add_function(function_directory, function_name, return_type))

AddParameterToFunction(function_name, parameter_name, parameter_type) ==
    Declares(add_parameter_to_function(function_directory, function_name,
                                       parameter_name, parameter_type))

AddLocalVariableToFunction(function_name, variable_name, variable_type) ==
    Declares(add_local_variable_to_function(function_directory, function_name,
                                            variable_name, variable_type))

AddGlobalVariable(variable_name, variable_type) ==
    Declares(add_global_variable(function_directory, variable_name, variable_type))

\* assign_variable_addresses(function_directory, virtual_memory)
AssignAddresses ==
    /\ phase = "declare"
    /\ LET assigned == assign_variable_addresses(function_directory, virtual_memory)
       IN  /\ function_directory' = assigned.function_directory
           /\ virtual_memory' = assigned.virtual_memory
    /\ vm_error' = "none"
    /\ DirFixed

\* lookup_variable(variable_name, current_function_name) on the directory as
\* it stands; current_function_name is NoName for the main body.
LookupVariable(variable_name, current_function_name) ==
    /\ phase = "declare"
    /\ phase' = "lookup"
    /\ calls' = << [function      |-> "lookup_variable",
                    variable_name |-> variable_name,
                    current_function_name |-> current_function_name,
                    outcome |-> lookup_variable(function_directory, variable_name,
                                                current_function_name)] >>
    /\ vm_error' = calls'[1].outcome.error
    /\ UNCHANGED << function_directory, virtual_memory, program_tree, generator,
                    quadruples, memory, ip, halted, return_address_stack,
                    pending_frame, output >>

NextDir ==
    \/ \E function_name \in DirFunctionNames, return_type \in ReturnTypes :
         AddFunction(function_name, return_type)
    \/ \E function_name \in DirFunctionNames, parameter_name \in DirVariableNames,
          parameter_type \in DeclaredTypes :
         AddParameterToFunction(function_name, parameter_name, parameter_type)
    \/ \E function_name \in DirFunctionNames, variable_name \in DirVariableNames,
          variable_type \in DeclaredTypes :
         AddLocalVariableToFunction(function_name, variable_name, variable_type)
    \/ \E variable_name \in DirVariableNames, variable_type \in DeclaredTypes :
         AddGlobalVariable(variable_name, variable_type)
    \/ AssignAddresses
    \/ \E variable_name \in DirVariableNames \cup {"z"},
          current_function_name \in DirFunctionNames \cup {NoName} :
         LookupVariable(variable_name, current_function_name)

SpecDir == InitDir /\ [][NextDir]_vars

-----------------------------------------------------------------------------
(* Properties of the directory *)

\* C17: add_function succeeds for every new name and every return type of
\* INT, FLOAT and VOID, recording the type; it fails with
\* DuplicateFunctionError exactly when the name is registered, and a failed
\* call leaves the directory unchanged.
C17_AddFunction ==
    [][\A function_name \in DirFunctionNames, return_type \in ReturnTypes :
          AddFunction(function_name, return_type)
            => IF HasFunction(function_directory, function_name)
                 THEN /\ vm_error' = "DuplicateFunctionError"
                      /\ function_directory' = function_directory
                 ELSE /\ vm_error' = "none"
                      /\ HasFunction(function_directory', function_name)
                      /\ get_function(function_directory', function_name).return_type
                           = return_type
                      /\ Len(function_directory'.functions)
                           = Len(function_directory.functions) + 1]_vars

\* The variable tables of the directory: the global one and one per function.
VariableTables ==
    {function_directory.global_variables}
      \cup {function_directory.functions[i].local_variables :
              i \in DOMAIN function_directory.functions}

NamesUnique(table) ==
    \A i, j \in DOMAIN table : table[i].name = table[j].name => i = j

\* What VariableTable.add_variable is to do with a table, a name and a type.
AddsVariable(table, after, variable_name, variable_type) ==
    IF contains_variable(table, variable_name)
      THEN vm_error' = "DuplicateVariableError" /\ after = table
      ELSE IF variable_type \notin {INT, FLOAT}
        THEN vm_error' # "none" /\ after = table
        ELSE /\ vm_error' = "none"
             /\ Len(after) = Len(table) + 1
             /\ Front(after) = table
             /\ Last(after).name = variable_name
             /\ Last(after).var_type = variable_type

\* C18: adding to a variable table fails with DuplicateVariableError when
\* the name is present and fails when the type is not INT or FLOAT, the
\* table unchanged in both cases; otherwise exactly one entry is inserted.
\* Names stay unique within every table.
C18_VariableTableAdd ==
    /\ [](\A table \in VariableTables : NamesUnique(table))
    /\ [][/\ \A variable_name \in DirVariableNames, variable_type \in DeclaredTypes :
               AddGlobalVariable(variable_name, variable_type)
                 => AddsVariable(function_directory.global_variables,
                                 function_directory'.global_variables,
                                 variable_name, variable_type)
          /\ \A function_name \in DirFunctionNames, variable_name \in DirVariableNames,
                variable_type \in DeclaredTypes :
               (/\ HasFunction(function_directory, function_name)
                /\ AddLocalVariableToFunction(function_name, variable_name,
                                              variable_type))
                 => AddsVariable(
                        get_function(function_directory, function_name).local_variables,
                        get_function(function_directory', function_name).local_variables,
                        variable_name, variable_type)]_vars

\* Two globals are declared and a third declaration repeated one of them.
C18_Witness ==
    /\ function_directory.functions = << >>
    /\ Len(function_directory.global_variables) = 2
    /\ vm_error = "DuplicateVariableError"

\* The parameter_list entry has its copy in local_variables.
MirroredInLocals(function_info, parameter) ==
    /\ contains_variable(function_info.local_variables, parameter.name)
    /\ LET local_copy == get_variable(function_info.local_variables, parameter.name)
       IN  /\ local_copy.is_parameter
           /\ local_copy.parameter_position = parameter.parameter_position
           /\ local_copy.virtual_address # None
                => parameter.virtual_address = local_copy.virtual_address

\* C19: after any sequence of add_function, add_parameter_to_function,
\* add_local_variable_to_function and assign_variable_addresses, failing
\* calls included, every parameter_list entry has an entry of the same name
\* in local_variables that is marked as a parameter, has the same position
\* and, once assigned, the same virtual address.
C19_ParametersMirroredInLocals ==
    \A i \in DOMAIN function_directory.functions :
        \A k \in DOMAIN function_directory.functions[i].parameter_list :
            MirroredInLocals(function_directory.functions[i],
                             function_directory.functions[i].parameter_list[k])

\* The parameters were declared before the other locals, as func_decl does.
ParametersFirst(function_info) ==
    \A i, j \in DOMAIN function_info.local_variables :
        (i < j /\ function_info.local_variables[j].is_parameter)
          => function_info.local_variables[i].is_parameter

\* Pairs of an assigned parameter and an assigned non-parameter local, both
\* entries of local_variables.
ParameterLocalPairs(function_info) ==
    {pair \in (DOMAIN function_info.local_variables)
                \X (DOMAIN function_info.local_variables) :
        /\ function_info.local_variables[pair[1]].is_parameter
        /\ ~function_info.local_variables[pair[2]].is_parameter
        /\ function_info.local_variables[pair[1]].virtual_address # None
        /\ function_info.local_variables[pair[2]].virtual_address # None}

Lookups == {calls[k] : k \in {j \in DOMAIN calls : calls[j].function = "lookup_variable"}}

\* C21: lookup_variable(name, f) returns f's local entry whenever f declares
\* name, also when a global of that name exists; it returns the global
\* entry when no current function is given or f does not declare name and a
\* global does; it fails with UnknownVariableError when neither scope
\* declares name.  Locals of other functions are never returned.
C21_LookupLocalsThenGlobals ==
    \A call \in Lookups :
        LET name    == call.variable_name
            f       == call.current_function_name
            globals == function_directory.global_variables
        IN  (f = NoName \/ HasFunction(function_directory, f))
              => LET locals == IF f = NoName THEN << >>
                               ELSE get_function(function_directory, f).local_variables
                 IN  IF contains_variable(locals, name)
                       THEN /\ call.outcome.ok
                            /\ call.outcome.info = get_variable(locals, name)
                       ELSE IF contains_variable(globals, name)
                         THEN /\ call.outcome.ok
                              /\ call.outcome.info = get_variable(globals, name)
                         ELSE /\ ~call.outcome.ok
                              /\ call.outcome.error = "UnknownVariableError"

\* f declares a: FLOAT, a global a: INT exists, and the lookup of a inside f
\* gave the FLOAT entry.
C21_Witness ==
    /\ phase = "lookup"
    /\ contains_variable(function_directory.global_variables, "a")
    /\ get_variable(function_directory.global_variables, "a").var_type = INT
    /\ calls[1].variable_name = "a"
    /\ calls[1].current_function_name = "f"
    /\ calls[1].outcome.ok
    /\ calls[1].outcome.info.var_type = FLOAT

-----------------------------------------------------------------------------
(* The allocator on its own: any sequence of calls on one VirtualMemory.
   calls is the log of the calls made, each with what it returned. *)

\* The width of the range of one (segment, type) pair.
SegmentWidth == GLOBAL_FLOAT_START - GLOBAL_INT_START

\* The log holds at most MaxCalls calls.
MaxCalls == 3

VariableSegments == {"global", "local", "temp"}

VariableTypes == {INT, FLOAT, BOOL}

\* (lexeme, type) pairs: one lexeme under two types, two lexemes of a type.
ConstantPairs ==
    {<< "1", INT >>, << "2", INT >>, << "1", FLOAT >>, << "hola", STR >>}

\* allocate_global, allocate_local or allocate_temporary
allocate_variable(vmem, segment, type) ==
    CASE segment = "global" -> allocate_global(vmem, type)
      [] segment = "local"  -> allocate_local(vmem, type)
      [] segment = "temp"   -> allocate_temporary(vmem, type)

\* count calls of one allocate_* in a row, as for count declarations of a
\* type in one scope: the last call's [address, virtual_memory].  The run
\* is split in two runs made one after the other; the second starts once
\* the first has returned an address.
RECURSIVE allocate_run(_, _, _, _)
allocate_run(vmem, segment, type, count) ==
    IF count = 1 THEN allocate_variable(vmem, segment, type)
    ELSE LET first == allocate_run(vmem, segment, type, count \div 2)
         IN  IF first.address = None THEN first
             ELSE allocate_run(first.virtual_memory, segment, type,
                               count - (count \div 2))

\* The integer literals from .. from + count - 1 interned in a row.
RECURSIVE intern_run(_, _, _)
intern_run(vmem, from, count) ==
    IF count = 1 THEN allocate_constant(vmem, NatToStr(from), INT)
    ELSE LET first == intern_run(vmem, from, count \div 2)
         IN  IF first.address = None THEN first
             ELSE intern_run(first.virtual_memory, from + (count \div 2),
                             count - (count \div 2))

\* One entry of the log.  segment and type are the requested pair.
Allocation(function, segment, type, key, count, before, got) ==
    [function |-> function, segment |-> segment, type |-> type, key |-> key,
     count |-> count, ok |-> got.ok, address |-> got.address,
     advanced |-> got.virtual_memory.counters # before.counters,
     registered |-> got.virtual_memory.function_return_addresses
                      # before.function_return_addresses]

Succeeded(got) ==
    [ok |-> TRUE, address |-> got.address, virtual_memory |-> got.virtual_memory]

InitAlloc ==
    /\ function_directory = FunctionDirectory
    /\ virtual_memory = VirtualMemory
    /\ program_tree = << >>
    /\ generator = << >>
    /\ phase = "allocate"
    /\ quadruples = << >>
    /\ memory = ExecutionMemory
    /\ ip = 0
    /\ halted = FALSE
    /\ return_address_stack = << >>
    /\ pending_frame = << >>
    /\ output = << >>
    /\ vm_error = "none"
    /\ calls = << >>

AllocFixed == UNCHANGED << function_directory, program_tree, generator, phase,
                           quadruples, memory, ip, halted, return_address_stack,
                           pending_frame, output >>

\* A call is made and logged.
Allocates(function, segment, type, key, count, got) ==
    /\ phase = "allocate"
    /\ Len(calls) < MaxCalls
    /\ virtual_memory' = got.virtual_memory
    /\ calls' = Append(calls, Allocation(function, segment, type, key, count,
                                         virtual_memory, got))
    /\ vm_error' = IF got.ok THEN "none" ELSE "ValueError"
    /\ AllocFixed

CallAllocateVariable(segment, type) ==
    Allocates("allocate_" \o segment, segment, type, "", 1,
              Succeeded(allocate_variable(virtual_memory, segment, type)))

CallAllocateConstant(literal_value, const_type) ==
    Allocates("allocate_constant", "const", const_type, literal_value, 1,
              Succeeded(allocate_constant(virtual_memory, literal_value, const_type)))

CallAllocateFunctionReturn(function_name, return_type) ==
    Allocates("allocate_function_return", "global", return_type, function_name, 1,
              allocate_function_return(virtual_memory, function_name, return_type))

\* A long run of one allocation, on the fresh allocator.
CallAllocateRun(segment, type, count) ==
    /\ calls = << >>
    /\ Allocates("allocate_" \o segment, segment, type, "", count,
                 Succeeded(allocate_run(virtual_memory, segment, type, count)))

CallInternRun(count) ==
    /\ calls = << >>
    /\ Allocates("allocate_constant", "const", INT, NatToStr(count - 1), count,
                 Succeeded(intern_run(virtual_memory, 0, count)))

NextAlloc ==
    \/ \E segment \in VariableSegments, type \in VariableTypes :
         CallAllocateVariable(segment, type)
    \/ \E pair \in ConstantPairs : CallAllocateConstant(pair[1], pair[2])
    \/ \E function_name \in DirFunctionNames, return_type \in ReturnTypes :
         CallAllocateFunctionReturn(function_name, return_type)
    \/ \E segment \in VariableSegments, type \in VariableTypes,
          count \in {SegmentWidth, SegmentWidth + 1} :
         CallAllocateRun(segment, type, count)
    \/ \E count \in {SegmentWidth, SegmentWidth + 1} : CallInternRun(count)

SpecAlloc == InitAlloc /\ [][NextAlloc]_vars

-----------------------------------------------------------------------------
(* Properties of the allocator *)

Allocations == {calls[k] : k \in {j \in DOMAIN calls : "advanced" \in DOMAIN calls[j]}}

\* The segment name decode_address gives for a requested segment.
DecodedSegment(segment) ==
    CASE segment = "global" -> "GLOBAL"
      [] segment = "local"  -> "LOCAL"
      [] segment = "temp"   -> "TEMP"
      [] segment = "const"  -> "CONSTANT"

\* The addresses a logged call returned: one, or those of a run.
ReturnedAddresses(call) ==
    IF call.ok THEN (call.address - call.count + 1)..call.address ELSE {}

\* C22: whatever the sequence of allocate_global, allocate_local,
\* allocate_temporary, allocate_constant and allocate_function_return calls,
\* every returned address decodes to the segment and type that were
\* requested, and calls for different (segment, type) pairs never return
\* the same address.
C22_AddressesInsideRequestedRange ==
    /\ \A call \in Allocations :
         \A address \in ReturnedAddresses(call) :
            /\ decode_address(address).ok
            /\ decode_address(address).segment = DecodedSegment(call.segment)
            /\ decode_address(address).type = call.type
    /\ \A one, other \in Allocations :
         << one.segment, one.type >> # << other.segment, other.type >>
           => ReturnedAddresses(one) \cap ReturnedAddresses(other) = {}

ConstantCalls == {k \in DOMAIN calls : calls[k].function = "allocate_constant"}

\* A later allocate_constant of a pair returns what the earlier one did and
\* advances no counter.
InternedOnce ==
    \A j, k \in ConstantCalls :
        (j < k /\ calls[j].key = calls[k].key /\ calls[j].type = calls[k].type)
          => /\ calls[k].address = calls[j].address
             /\ ~calls[k].advanced

\* The entries of the constant table have pairwise different addresses.
ConstantAddressesDiffer ==
    Cardinality({virtual_memory.constant_table[i].address :
                    i \in DOMAIN virtual_memory.constant_table})
      = Len(virtual_memory.constant_table)

\* C23: allocate_constant called again with an interned (lexeme, type) pair
\* returns the address of the first call and advances no counter, whatever
\* was allocated in between; two different pairs never get the same address.
C23_ConstantsInternedOnce ==
    InternedOnce /\ ConstantAddressesDiffer

ReturnCalls == {k \in DOMAIN calls : calls[k].function = "allocate_function_return"}

\* The earlier calls that reserved or returned the slot of the same function.
EarlierSlots(k) ==
    {j \in ReturnCalls : j < k /\ calls[j].key = calls[k].key /\ calls[j].ok}

\* What one call of allocate_function_return did, by its place in the log.
ReturnSlotRule(k) ==
    IF calls[k].type = VOID
      THEN ~calls[k].ok /\ ~calls[k].advanced /\ ~calls[k].registered
      ELSE IF EarlierSlots(k) = {}
        THEN /\ calls[k].ok /\ calls[k].advanced /\ calls[k].registered
             /\ decode_address(calls[k].address).segment = "GLOBAL"
             /\ decode_address(calls[k].address).type = calls[k].type
        ELSE /\ calls[k].ok /\ ~calls[k].advanced /\ ~calls[k].registered
             /\ \A j \in EarlierSlots(k) : calls[j].address = calls[k].address

\* C25: allocate_function_return(name, t) reserves one GLOBAL slot of type
\* t on the first call for name and returns that slot, advancing no
\* counter, on every later call; with t = VOID it fails and changes neither
\* the counters nor the registry of return slots.
C25_ReturnSlotReservedOnce ==
    \A k \in ReturnCalls : ReturnSlotRule(k)

-----------------------------------------------------------------------------
(* Properties of the address assignment pass *)

Addressed(table) == \A i \in DOMAIN table : table[i].virtual_address # None

\* Every global, local and parameter has an address and every typed
\* function a return slot.
AllAddressed(directory, vmem) ==
    /\ Addressed(directory.global_variables)
    /\ \A i \in DOMAIN directory.functions :
         /\ Addressed(directory.functions[i].local_variables)
         /\ Addressed(directory.functions[i].parameter_list)
         /\ directory.functions[i].return_type # VOID
              => HasReturnAddress(vmem, directory.functions[i].name)

\* A further assign_variable_addresses changes neither the directory nor
\* the allocator.
AssignedForGood(directory, vmem) ==
    assign_variable_addresses(directory, vmem)
      = [function_directory |-> directory, virtual_memory |-> vmem]

\* C24: after assign_variable_addresses every global, local and parameter
\* of the directory has a virtual address and every non-VOID function has
\* a return slot; a second invocation on the same directory changes no
\* variable address, no return slot and no allocator counter.
C24_AddressesAssignedOnce ==
    [][AssignAddresses
         => /\ AllAddressed(function_directory', virtual_memory')
            /\ AssignedForGood(function_directory', virtual_memory')]_vars

====
